---- MODULE Spec2Model ----
(***************************************************************************)
(* Neural key exchange coordinator (backend/app): Tree Parity Machines,    *)
(* the per-session sync task and the WebSocket connection manager.         *)
(*                                                                         *)
(* One session_id is modelled.  Session objects, TPM objects and sync      *)
(* tasks live in small heaps so that a reference held by a handler or a    *)
(* task keeps its identity when the registry entry is replaced.  Every     *)
(* `await` of a send, a sleep or a receive is a suspension point: an       *)
(* action runs a coroutine from one suspension point up to and including   *)
(* the next send (or sleep).  task.cancel() is taken at the task's next    *)
(* step; CancelledError is a BaseException (Python 3.8 and later), so      *)
(* broadcast's `except Exception` does not catch it.                       *)
(*                                                                         *)
(* Spec       three channels, no chat traffic; the third channel arrives   *)
(*            while no other handler is inside connect.                    *)
(* SpecRelay  the first two channels, chat traffic included.               *)
(* SpecRound  the sync loop's body as a function, applied to a session's   *)
(*            TPMs for larger (K, N, L).                                   *)
(* SpecLive   Spec without client requests, with the event loop's          *)
(*            fairness: a coroutine that is ready to run is run.           *)
(* SpecFault  SpecLive's steps, and a sync task may raise after a sleep.   *)
(* SpecParams Spec's first two channels with POST /sessions and the       *)
(*            TPM parameters of the WebSocket query string.                *)
(* SpecCipher NeuralCipher.encrypt and decrypt as functions.               *)
(* SpecTrack  the sync loop's progress tracking over many rounds.          *)
(* SpecProto  NeuralSyncProtocol (neural/sync.py) and its callers.         *)
(***************************************************************************)
EXTENDS Integers, Sequences, FiniteSets, TLC

\* ---------------------------------------------------------------- bounds
\* one-shot WebSocket connections (channels) of the coordinator model
MaxConns == 3
\* session objects ever alive at once under the modelled session_id
MaxSessions == 2
\* sync tasks alive at once
MaxTasks == 2
\* TPM objects alive at once
MaxTpms == 5
\* rounds one sync task may run in the model (the code has no cap)
MaxRounds == 2
\* message frames one client sends on its channel
MaxMsgs == 2
\* the ciphertexts a client may put into a message frame
Ciphertexts == {"q", "r"}

ConnIds == 1..MaxConns
SessIds == 1..MaxSessions
TaskIds == 1..MaxTasks
TpmIds == 1..MaxTpms

\* the user_id of a connection: the first two channels are alice's and bob's,
\* a later one is alice again (a re-attach) or a third user
UserChoices(c) ==
  IF c = 1 THEN {"alice"} ELSE IF c = 2 THEN {"bob"} ELSE {"alice", "carol"}

\* (tpm_k, tpm_n, tpm_l) query parameters a connector may supply
ConnectConfigs == {<<1, 1, 1>>}
\* (tpm_k, tpm_n, tpm_l) values a client may put into the query string of the
\* transport endpoint or into the body of POST /sessions
RequestConfigs == {<<1, 1, 1>>, <<2, 1, 1>>, <<1, 1, 11>>}

Rules == {"random_walk", "hebbian", "anti_hebbian"}

\* ------------------------------------------------------------- sequences
RECURSIVE SumSeq(_)
SumSeq(s) == IF s = <<>> THEN 0 ELSE Head(s) + SumSeq(Tail(s))

RECURSIVE ProdSeq(_)
ProdSeq(s) == IF s = <<>> THEN 1 ELSE Head(s) * ProdSeq(Tail(s))

RECURSIVE Flatten(_)
Flatten(m) == IF m = <<>> THEN <<>> ELSE Head(m) \o Flatten(Tail(m))

Abs(v) == IF v < 0 THEN -v ELSE v

LastN(s, n) == IF Len(s) <= n THEN s ELSE SubSeq(s, Len(s) - n + 1, Len(s))

\* -------------------------------------------------------------------- TPM
\* TreeParityMachine.__init__: np.random.randint(-L, L + 1, size=(K, N))
WeightSpace(K, N, L) == [1..K -> [1..N -> (-L)..L]]

\* the initial weights the coordinator model draws for a participant (the
\* corners of WeightSpace) and for the attacker (one corner)
CornerWeights(K, N, L) == [1..K -> [1..N -> {-L, L}]]
AttackerWeights(K, N, L) == [1..K -> [1..N -> {L}]]
\* the random initial weights a connection's TPM is created with: the first
\* connection draws the all-L corner, the second any corner (so that a pair may
\* start equal or different), later ones the all-(-L) corner
InitialWeights(c, K, N, L) ==
  IF c = 1 THEN AttackerWeights(K, N, L)
  ELSE IF c = 2 THEN CornerWeights(K, N, L)
  ELSE [1..K -> [1..N -> {-L}]]

\* np.random.choice([-1, 1], size=(K, N))
InputSpace(K, N) == [1..K -> [1..N -> {-1, 1}]]

\* a sign that sends 0 to -1
SignStrict(h) == IF h > 0 THEN 1 ELSE -1
\* np.sign(h) with zeros replaced by 1
Sign(h) == IF h >= 0 THEN 1 ELSE -1

\* TreeParityMachine.compute_output
compute_output(W, X) ==
  LET sigma == [k \in 1..Len(W) |->
                  Sign(SumSeq([n \in 1..Len(W[k]) |-> X[k][n] * W[k][n]]))]
  IN  [tau |-> ProdSeq(sigma), sigma |-> sigma]

\* an update that is not clipped
ClipNoop(v, L) == v
\* np.clip(v, -L, L)
Clip(v, L) == IF v < -L THEN -L ELSE IF v > L THEN L ELSE v

\* one row of the update: W[k] + step * dir * X[k], clipped
MoveRow(row, xrow, delta, L) ==
  [n \in 1..Len(row) |-> Clip(row[n] + delta * xrow[n], L)]

\* an update that moves every row, whatever its hidden output
update_every_row(W, X, tau_self, tau_other, sigma, rule, L) ==
  IF tau_self # tau_other THEN W
  ELSE [k \in 1..Len(W) |->
          MoveRow(W[k], X[k],
                  CASE rule = "hebbian" -> sigma[k]
                    [] rule = "anti_hebbian" -> -sigma[k]
                    [] rule = "random_walk" -> 1
                    [] OTHER -> 0,
                  L)]
\* TreeParityMachine.update_weights: the new weight matrix (a rule outside the
\* three names adds nothing, the row is only clipped)
update_weights(W, X, tau_self, tau_other, sigma, rule, L) ==
  IF tau_self # tau_other THEN W
  ELSE [k \in 1..Len(W) |->
          IF sigma[k] = tau_self
          THEN MoveRow(W[k], X[k],
                       CASE rule = "hebbian" -> sigma[k]
                         [] rule = "anti_hebbian" -> -sigma[k]
                         [] rule = "random_walk" -> 1
                         [] OTHER -> 0,
                       L)
          ELSE W[k]]

\* TreeParityMachine.update_weights: the value returned (lines 73-74 and 92)
update_weights_returns(tau_self, tau_other) == tau_self = tau_other

\* little-endian two's complement bytes of an int32
Int32LE(v) == [i \in 1..4 |-> (v \div (256 ^ (i - 1))) % 256]

\* weights.astype(np.int32).tobytes(): row-major
Serialize(W) == Flatten([i \in 1..Len(Flatten(W)) |-> Int32LE(Flatten(W)[i])])

\* hashlib.sha256(..).digest(): a collision-free 32-byte digest of its input
Sha256(bytes) == [sha256 |-> bytes]
DigestLen == 32

\* TreeParityMachine.get_key(length=32)
get_key(W) == Sha256(Serialize(W))

\* Python's None for a key or cipher not yet set
None == [none |-> TRUE]

\* a cipher left unset
NoCipher(key) == None
\* NeuralCipher.__init__: keys shorter than 32 bytes are hashed, else cut to 32
NeuralCipher(key) == [key |-> IF DigestLen < 32 THEN Sha256(key) ELSE key]

\* np.sum(np.abs(A - B))
WeightDiff(A, B) ==
  SumSeq([i \in 1..Len(Flatten(A)) |-> Abs(Flatten(A)[i] - Flatten(B)[i])])

\* ------------------------------------------------- the sync loop's round
\* program constants of ConnectionManager._run_sync
HistoryCap == 200
AvgWindow == 50
RuleSwitchInterval == 50
CloseSwitchInterval == 30
TrimKeep == 20

\* max_possible_diff = tpm_k * tpm_n * (2 * tpm_l)
MaxPossibleDiff(K, N, L) == K * N * (2 * L)

\* progress = 1.0 - diff / max_possible_diff if max_possible_diff > 0 else 1.0,
\* kept as the fraction ProgressNum / ProgressDen
ProgressDen(maxd) == IF maxd > 0 THEN maxd ELSE 1
ProgressNum(diff, maxd) == IF maxd > 0 THEN maxd - diff ELSE 1

\* progress >= pct / 100
ProgressGE(num, den, pct) == 100 * num >= pct * den

\* lines 306-321: entries that differ by exactly 1 both move to min + 1
DirectConverge(A, B, L) ==
  [k \in 1..Len(A) |-> [n \in 1..Len(A[k]) |->
     IF Abs(A[k][n] - B[k][n]) = 1
     THEN Clip((IF A[k][n] < B[k][n] THEN A[k][n] ELSE B[k][n]) + 1, L)
     ELSE A[k][n]]]

\* lines 324-350: the boosted update of one TPM (hebbian and random_walk only)
Boost(W, X, sigma, tau, step, rule, L) ==
  [k \in 1..Len(W) |->
     IF sigma[k] = tau /\ rule = "hebbian" THEN MoveRow(W[k], X[k], step * sigma[k], L)
     ELSE IF sigma[k] = tau /\ rule = "random_walk" THEN MoveRow(W[k], X[k], step, L)
     ELSE W[k]]

\* a boost that is given to the first TPM only
FinalPushBoostFirst(A1, B1, X, oa, ob, step, rule, L) ==
  [a |-> IF oa.tau = ob.tau THEN Boost(A1, X, oa.sigma, oa.tau, step, rule, L) ELSE A1,
   b |-> B1]
\* lines 322-350: "if agreed and progress >= 0.85", step 2 at 90% and above
FinalPushBoost(A1, B1, X, oa, ob, step, rule, L) ==
  [a |-> IF oa.tau = ob.tau THEN Boost(A1, X, oa.sigma, oa.tau, step, rule, L) ELSE A1,
   b |-> IF oa.tau = ob.tau THEN Boost(B1, X, ob.sigma, ob.tau, step, rule, L) ELSE B1]

\* lines 301-350 for the progress num / den computed at lines 297-299
FinalPushAt(A, B, X, oa, ob, rule, L, num, den) ==
  IF ProgressGE(num, den, 85) /\ A # B
  THEN FinalPushBoost(IF ProgressGE(num, den, 90) THEN DirectConverge(A, B, L) ELSE A,
                      IF ProgressGE(num, den, 90) THEN DirectConverge(B, A, L) ELSE B,
                      X, oa, ob, IF ProgressGE(num, den, 90) THEN 2 ELSE 1, rule, L)
  ELSE [a |-> A, b |-> B]

\* lines 293-355: the end-game convergence assist, the pair of new matrices
FinalPush(A, B, X, oa, ob, rule, maxd, L) ==
  FinalPushAt(A, B, X, oa, ob, rule, L, ProgressNum(WeightDiff(A, B), maxd), ProgressDen(maxd))

\* a TreeParityMachine object of the heap: its weights; NoTpm is a free slot
Tpm(W) == [used |-> TRUE, weights |-> W]
NoTpm == [used |-> FALSE, weights |-> <<>>]

\* lines 266-291: the eavesdropper's TPM after the round (E = NoTpm when the
\* session has no attacker TPM)
AttackerStep(E, X, tau_a, tau_b, rule, L) ==
  IF ~E.used THEN E
  ELSE LET oe == compute_output(E.weights, X)
       IN  IF tau_a = tau_b
           THEN Tpm(update_weights(E.weights, X, oe.tau, tau_a, oe.sigma, rule, L))
           ELSE E

\* a cycle that runs the other way
NextRuleBack(rule) ==
  CASE rule = "random_walk" -> "anti_hebbian"
    [] rule = "hebbian" -> "random_walk"
    [] OTHER -> "hebbian"
\* lines 382-390: the rule cycle
NextRule(rule) ==
  CASE rule = "random_walk" -> "hebbian"
    [] rule = "hebbian" -> "anti_hebbian"
    [] OTHER -> "random_walk"

\* lines 378-396: the adaptive rule switch, and the task's locals after the body
RoundSwitch(T, h2, best, rsi, rnd, interval, match) ==
  LET switch == rsi >= interval /\ (rnd - T.last_switch_round) >= interval
  IN  [T EXCEPT
         !.round_num = rnd,
         !.learning_rule = IF switch THEN NextRule(@) ELSE @,
         !.progress_history =
            IF ~switch THEN h2
            ELSE IF Len(h2) > TrimKeep THEN LastN(h2, TrimKeep) ELSE <<>>,
         !.best_progress = best,
         !.rounds_since_improvement = IF switch THEN 0 ELSE rsi,
         !.last_switch_round = IF switch THEN rnd ELSE @,
         !.weights_match = match]

\* an interval near convergence that is shorter than the trimmed window
ShortSwitchInterval(num, den) ==
  IF ProgressGE(num, den, 85) THEN TrimKeep \div 2 ELSE RuleSwitchInterval
\* current_switch_interval of line 379 for the round's progress
SwitchInterval(num, den) ==
  IF ProgressGE(num, den, 85) THEN CloseSwitchInterval ELSE RuleSwitchInterval

\* lines 362-379: best_progress (kept as a numerator over AvgWindow * den) and
\* rounds_since_improvement, from the window sum avg of the history h2
RoundTrack(T, h2, avg, num, den, match) ==
  LET improved == IF Len(h2) >= AvgWindow
                  THEN 2 * avg > 2 * T.best_progress + den
                  ELSE AvgWindow * num > T.best_progress
  IN  RoundSwitch(T, h2,
                  IF ~improved THEN T.best_progress
                  ELSE IF Len(h2) >= AvgWindow THEN avg ELSE AvgWindow * num,
                  IF improved THEN 0 ELSE T.rounds_since_improvement + 1,
                  T.round_num + 1,
                  SwitchInterval(num, den),
                  match)

\* lines 357-360: progress_history.append(progress), capped at HistoryCap
CapHistory(h1) == IF Len(h1) > HistoryCap THEN Tail(h1) ELSE h1

RoundScore(T, h2, num, den, match) ==
  RoundTrack(T, h2, SumSeq(LastN(h2, AvgWindow)), num, den, match)

\* the round's result: the matrices, the attacker, and the task's locals
RoundRecord(T, fp, E1, adiff, oa, ob, num, den) ==
  [a |-> fp.a, b |-> fp.b, e |-> E1,
   attacker_diff |-> adiff,
   agreed |-> (oa.tau = ob.tau), tau_a |-> oa.tau, tau_b |-> ob.tau,
   progress |-> num,
   T |-> RoundScore(T, CapHistory(Append(T.progress_history, num)), num, den, fp.a = fp.b)]

\* a round in which A takes over the attacker's weights
RoundResultLeaky(T, fp, E1, A1, oa, ob, maxd) ==
  RoundRecord(T, IF E1.used THEN [a |-> E1.weights, b |-> fp.b] ELSE fp, E1,
              IF ~E1.used THEN 0 ELSE WeightDiff(E1.weights, A1),
              oa, ob, ProgressNum(WeightDiff(fp.a, fp.b), maxd), ProgressDen(maxd))
\* lines 286, 352-355: the attacker's distance to A1 and the final progress
RoundResult(T, fp, E1, A1, oa, ob, maxd) ==
  RoundRecord(T, fp, E1,
              IF ~E1.used THEN 0 ELSE WeightDiff(E1.weights, A1),
              oa, ob, ProgressNum(WeightDiff(fp.a, fp.b), maxd), ProgressDen(maxd))

\* lines 257-355 for the outputs oa, ob of the two TPMs
RoundOutputs(T, A, B, E, X, oa, ob, maxd, L) ==
  RoundResult(T,
              FinalPush(update_weights(A, X, oa.tau, ob.tau, oa.sigma, T.learning_rule, L),
                        update_weights(B, X, ob.tau, oa.tau, ob.sigma, T.learning_rule, L),
                        X, oa, ob, T.learning_rule, maxd, L),
              AttackerStep(E, X, oa.tau, ob.tau, T.learning_rule, L),
              update_weights(A, X, oa.tau, ob.tau, oa.sigma, T.learning_rule, L),
              oa, ob, maxd)

\* lines 251-398: one pass of the loop body over the task's locals T, the two
\* participant matrices A, B and the attacker's TPM E, for the input X
RoundBody(T, A, B, E, X, K, N, L) ==
  RoundOutputs(T, A, B, E, X, compute_output(A, X), compute_output(B, X),
               MaxPossibleDiff(K, N, L), L)

\* ------------------------------------------------------------------ state
VARIABLES
  sessions,    \* ConnectionManager.sessions[session_id]: a session object id, 0 when absent
  sess,        \* the SyncSession objects
  sync_tasks,  \* ConnectionManager._sync_tasks[session_id]: a task id, 0 when absent
  tasks,       \* the _run_sync tasks: position, cancellation flag and locals
  conns,       \* the websocket_endpoint handlers and their channels
  tpm,         \* the TreeParityMachine objects: their weight matrices
  sent,        \* the frame the last step handed to a channel (NoFrame when none)
  obj          \* what a function-level specification works on: the object of a
               \* direct call of the library classes (NeuralCipher,
               \* NeuralSyncProtocol), or the progress the sync loop computed in
               \* its round; None in the coordinator

vars == <<sessions, sess, sync_tasks, tasks, conns, tpm, sent, obj>>


\* a frame as handed to WebSocket.send_json, with the coroutine that sent it;
\* seq is the position of a message frame in the stream of messages its
\* sender's client sent (a history field, 0 in every other frame)
NoFrame ==
  [type |-> "none", to |-> 0, sess |-> 0, task |-> 0, user |-> "", round |-> 0, code |-> "",
   ciphertext |-> "", seq |-> 0]
Frame(type, s, task, user, round, code) ==
  [type |-> type, to |-> 0, sess |-> s, task |-> task, user |-> user, round |-> round, code |-> code,
   ciphertext |-> "", seq |-> 0]

\* SyncSession (dataclass defaults); completes counts the sync_complete
\* broadcasts of the session (a history field)
NewSession(k, n, l) ==
  [live |-> TRUE, tpm_k |-> k, tpm_n |-> n, tpm_l |-> l,
   participants |-> <<>>, tpms |-> <<>>,
   sync_round |-> 0, is_synced |-> FALSE, is_syncing |-> FALSE,
   shared_key |-> None, cipher |-> None,
   attacker_tpm |-> 0, attacker_diff |-> 0,
   completes |-> 0]
NoSession == [NewSession(0, 0, 0) EXCEPT !.live = FALSE]

\* a task whose round counter starts at 1
NewTaskFromOne(s) ==
  [pc |-> "created", cancelled |-> FALSE, session |-> s,
   bq |-> <<>>, bfail |-> <<>>, bframe |-> NoFrame,
   tpm_a |-> 0, tpm_b |-> 0,
   round_num |-> 1, learning_rule |-> "random_walk", progress_history |-> <<>>,
   best_progress |-> 0, rounds_since_improvement |-> 0, last_switch_round |-> 0,
   weights_match |-> FALSE]
\* the locals of one _run_sync task
NewTask(s) ==
  [pc |-> "created", cancelled |-> FALSE, session |-> s,
   bq |-> <<>>, bfail |-> <<>>, bframe |-> NoFrame,
   tpm_a |-> 0, tpm_b |-> 0,
   round_num |-> 0, learning_rule |-> "random_walk", progress_history |-> <<>>,
   best_progress |-> 0, rounds_since_improvement |-> 0, last_switch_round |-> 0,
   weights_match |-> FALSE]
NoTask == [NewTask(0) EXCEPT !.pc = "none"]

\* one websocket_endpoint handler: its channel, its locals and the broadcast
\* it is suspended in; max_round is the highest round of the sync_progress
\* frames the channel was handed, run_round the round of the last one handed
\* since the last sync_start (history fields, 0 when none); data is the
\* ciphertext of the last message frame the handler received, msgs the number
\* of message frames it received and seen the seq of the last message frame
\* the channel was handed (history fields)
NewConn ==
  [pc |-> "idle", ws |-> "new", user |-> "", session |-> 0, cur |-> 0,
   bq |-> <<>>, bfail |-> <<>>, bframe |-> NoFrame,
   max_round |-> 0, run_round |-> 0,
   data |-> "", msgs |-> 0, seen |-> 0]
DoneConn == [NewConn EXCEPT !.pc = "done", !.ws = "closed"]

\* the state as one record, so that a handler and the calls it makes compose;
\* ok turns FALSE when a step would need an object beyond the model's bounds
World ==
  [sessions |-> sessions, sess |-> sess, sync_tasks |-> sync_tasks, tasks |-> tasks,
   conns |-> conns, tpm |-> tpm, sent |-> NoFrame, ok |-> TRUE]

\* ------------------------------------------------------ ordered dicts
Keys(d) == {d[i].user : i \in DOMAIN d}
Put(d, u, v) ==
  IF u \in Keys(d)
  THEN [i \in DOMAIN d |-> IF d[i].user = u THEN [user |-> u, ref |-> v] ELSE d[i]]
  ELSE Append(d, [user |-> u, ref |-> v])
Pop(d, u) == SelectSeq(d, LAMBDA e : e.user # u)
Get(d, u) == d[CHOOSE i \in DOMAIN d : d[i].user = u].ref

\* ----------------------------------------------------------- allocation
FreeOf(S, used) == IF S \ used = {} THEN 0 ELSE CHOOSE i \in S \ used : \A j \in S \ used : i <= j
FreeSess(w) == FreeOf(SessIds, {i \in SessIds : w.sess[i].live})
FreeTask(w) == FreeOf(TaskIds, {i \in TaskIds : w.tasks[i].pc # "none"})
FreeTpm(w) == FreeOf(TpmIds, {i \in TpmIds : w.tpm[i].used})

\* objects still referenced after a step; the rest is garbage
LiveSess(w) ==
  {w.sessions}
    \cup {w.conns[c].session : c \in {x \in ConnIds : w.conns[x].pc # "done"}}
    \cup {w.conns[c].cur : c \in {x \in ConnIds : w.conns[x].pc # "done"}}
    \cup {w.tasks[t].session : t \in {x \in TaskIds : w.tasks[x].pc # "none"}}
LiveTpm(w) ==
  UNION {{w.sess[s].tpms[i].ref : i \in DOMAIN w.sess[s].tpms} \cup {w.sess[s].attacker_tpm}
           : s \in LiveSess(w) \ {0}}
    \cup UNION {{w.tasks[t].tpm_a, w.tasks[t].tpm_b}
                  : t \in {x \in TaskIds : w.tasks[x].pc # "none"}}

\* the next state: w with unreferenced objects dropped
Commit(w) ==
  /\ w.ok
  /\ sessions' = w.sessions
  /\ sess' = [s \in SessIds |-> IF s \in LiveSess(w) THEN w.sess[s] ELSE NoSession]
  /\ sync_tasks' = w.sync_tasks
  /\ tasks' = w.tasks
  /\ conns' = w.conns
  /\ tpm' = [i \in TpmIds |-> IF i \in LiveTpm(w) THEN w.tpm[i] ELSE NoTpm]
  /\ sent' = w.sent
  /\ obj' = obj

\* -------------------------------------------------------------- SyncSession
\* SyncSession.add_participant: a fresh TPM with weights W
add_participant(w, s, u, c, W) ==
  LET t == FreeTpm(w)
  IN  IF t = 0 THEN [w EXCEPT !.ok = FALSE]
      ELSE [w EXCEPT !.sess[s].participants = Put(@, u, c),
                     !.sess[s].tpms = Put(@, u, t),
                     !.tpm[t] = Tpm(W)]

\* a removal that forgets the user's TPM
remove_participant_keep_tpm(w, s, u) ==
  [w EXCEPT !.sess[s].participants = Pop(@, u)]
\* SyncSession.remove_participant
remove_participant(w, s, u) ==
  [w EXCEPT !.sess[s].participants = Pop(@, u), !.sess[s].tpms = Pop(@, u)]

\* add_participant, line 55: TreeParityMachine(self.tpm_k, self.tpm_n,
\* self.tpm_l), whatever cfg the connector supplied
TpmConfig(S, cfg) == <<S.tpm_k, S.tpm_n, S.tpm_l>>

\* SyncSession.is_ready
is_ready(S) == Len(S.participants) = 2

\* ---------------------------------------------------------------- broadcast
\* ConnectionManager.broadcast, lines 165-167: the (user, channel) pairs the
\* loop will send to, taken when the broadcast starts
Targets(S, exclude) == SelectSeq(S.participants, LAMBDA e : e.user \notin exclude)

\* lines 168-172: one send of the loop; a closed or broken channel raises and
\* the user is noted
SendOk(w, c) == w.conns[c].ws = "open"

\* lines 174-175: the users whose send raised are removed
RECURSIVE RemoveAll(_, _, _)
RemoveAll(w, s, users) ==
  IF users = <<>> THEN w
  ELSE RemoveAll(remove_participant(w, s, Head(users)), s, Tail(users))

\* line 169: the channel C is handed the frame f
Deliver(C, f) ==
  IF f.type = "sync_progress"
  THEN [C EXCEPT !.run_round = f.round,
                 !.max_round = IF f.round > @ THEN f.round ELSE @]
  ELSE IF f.type = "sync_start" THEN [C EXCEPT !.run_round = 0]
  ELSE IF f.type = "message" THEN [C EXCEPT !.seen = f.seq]
  ELSE C

\* a handler suspended in a broadcast sends to the next pair of its list
conn_send_next(w, c) ==
  LET h == Head(w.conns[c].bq)
      ok == SendOk(w, h.ref)
  IN  [w EXCEPT !.sent = IF ok THEN [w.conns[c].bframe EXCEPT !.to = h.ref] ELSE NoFrame,
                !.conns[h.ref] = IF ok THEN Deliver(@, w.conns[c].bframe) ELSE @,
                !.conns[c].bq = Tail(@),
                !.conns[c].bfail = IF ok THEN @ ELSE Append(@, h.user)]

\* a handler enters broadcast(session s, frame) with the non-empty list q and
\* runs to its first send
conn_begin_broadcast(w, c, s, frame, q, pc) ==
  conn_send_next([w EXCEPT !.conns[c].cur = s, !.conns[c].bframe = frame,
                           !.conns[c].bq = q, !.conns[c].bfail = <<>>,
                           !.conns[c].pc = pc], c)

\* the end of a handler's broadcast: lines 174-175
conn_end_broadcast(w, c) ==
  [RemoveAll(w, w.conns[c].cur, w.conns[c].bfail)
     EXCEPT !.conns[c].bfail = <<>>, !.conns[c].bframe = NoFrame]

\* ------------------------------------------------------ ConnectionManager
\* start_sync_background
start_sync_background(w, s) ==
  IF w.sync_tasks # 0 THEN w
  ELSE LET t == FreeTask(w)
       IN  IF t = 0 THEN [w EXCEPT !.ok = FALSE]
           ELSE [w EXCEPT !.tasks[t] = NewTask(s), !.sync_tasks = t]

\* main.py lines 138-140 and 161-162
StartIfIdle(w, s) ==
  IF is_ready(w.sess[s]) /\ ~w.sess[s].is_synced /\ ~w.sess[s].is_syncing
  THEN start_sync_background(w, s)
  ELSE w

\* a connect without the capacity test
SessionFullNever(S, u) == FALSE
\* connect, line 100: the session is full for user_id
SessionFull(S, u) == Len(S.participants) >= 2 /\ u \notin Keys(S.participants)

\* connect, lines 118-131: the joiner's session_info; a send that raises ends
\* the handler with its `session` still None, so no disconnect runs
connect_session_info(w, c) ==
  LET w1 == conn_end_broadcast(w, c)
  IN  IF SendOk(w1, c)
      THEN [w1 EXCEPT !.sent = [Frame("session_info", w.conns[c].cur, 0, w.conns[c].user, 0, "")
                                  EXCEPT !.to = c],
                      !.conns[c].pc = "connect_info"]
      ELSE [w1 EXCEPT !.conns[c] = DoneConn]

\* a rejection that closes without the error frame
RejectSilently(w, c, s, u) == [w EXCEPT !.conns[c] = DoneConn]
\* connect, lines 101-107: the error frame, close, and the ValueError that ends
\* the handler with its `session` still None (main.py lines 176-184)
reject(w, c, s, u) ==
  [w EXCEPT !.sent = [Frame("error", s, 0, u, 0, "SESSION_FULL") EXCEPT !.to = c],
            !.conns[c] = DoneConn]

\* connect, lines 86-116: accept, create or get the session, reject a third
\* user, else add the participant and start the user_joined broadcast
connect(w, c, u, cfg, W) ==
  LET s == IF w.sessions = 0 THEN FreeSess(w) ELSE w.sessions
      w0 == [w EXCEPT !.conns[c].ws = "open", !.conns[c].user = u]
      w1 == IF w.sessions # 0 THEN w0
            ELSE [w0 EXCEPT !.sessions = s, !.sess[s] = NewSession(cfg[1], cfg[2], cfg[3])]
  IN  IF s = 0 THEN [w EXCEPT !.ok = FALSE]
      ELSE IF SessionFull(w1.sess[s], u)
      THEN reject(w1, c, s, u)
      ELSE LET w2 == add_participant(w1, s, u, c, W)
               q == Targets(w2.sess[s], {u})
               joined == Frame("user_joined", s, 0, u, 0, "")
           IN  IF ~w2.ok THEN w2
               ELSE IF q = <<>>
               THEN connect_session_info([w2 EXCEPT !.conns[c].cur = s], c)
               ELSE conn_begin_broadcast(w2, c, s, joined, q, "connect_bcast")

\* websocket_endpoint, lines 126-140: connect returned
connect_return(w, c) ==
  LET s == w.conns[c].cur
  IN  StartIfIdle([w EXCEPT !.conns[c].session = s, !.conns[c].cur = 0,
                            !.conns[c].pc = "recv"], s)

\* the exclude set of a relay that sends to every participant
ExcludeNone(u) == {}
\* relay_message, line 470: exclude={sender_id}
ExcludeSender(u) == {u}

\* main.py lines 146-157 and relay_message: the handler of channel c received
\* a message frame with ciphertext ct and relays it
relay_message(w, c, ct) ==
  LET s == w.conns[c].session
      u == w.conns[c].user
      w1 == [w EXCEPT !.conns[c].data = ct, !.conns[c].msgs = @ + 1]
      q == Targets(w1.sess[s], ExcludeSender(u))
      f == [Frame("message", s, 0, u, 0, "") EXCEPT !.ciphertext = w1.conns[c].data,
                                                    !.seq = w1.conns[c].msgs]
  IN  IF q = <<>> THEN w1
      ELSE conn_begin_broadcast(w1, c, s, f, q, "relay_bcast")

\* disconnect, lines 152-154, after the user_left broadcast
disconnect_cleanup(w, c) ==
  LET w1 == conn_end_broadcast(w, c)
      s == w.conns[c].cur
  IN  [w1 EXCEPT !.sessions = IF w1.sess[s].participants = <<>> THEN 0 ELSE @,
                 !.conns[c] = DoneConn]

\* a disconnect that leaves the registered task alone
NoCancel(w) == w
\* disconnect, lines 142-144: cancel the registered task and drop the entry
CancelRegistered(w) == [w EXCEPT !.tasks[w.sync_tasks].cancelled = TRUE, !.sync_tasks = 0]

\* disconnect, lines 135-150
disconnect(w, c) ==
  LET s == w.sessions
      u == w.conns[c].user
      w1 == remove_participant(w, s, u)
  IN  IF s = 0 THEN [w EXCEPT !.conns[c] = DoneConn]
      ELSE IF w.sync_tasks = 0 THEN [w1 EXCEPT !.conns[c] = DoneConn]
      ELSE LET w2 == CancelRegistered(w1)
               q == Targets(w2.sess[s], {})
           IN  IF q = <<>> THEN disconnect_cleanup([w2 EXCEPT !.conns[c].cur = s], c)
               ELSE conn_begin_broadcast(w2, c, s, Frame("user_left", s, 0, u, 0, ""), q,
                                         "disconnect_bcast")

\* ------------------------------------------------------------- _run_sync
\* a broadcast that gives up at the first send that raises
task_send_abort(w, t) ==
  LET h == Head(w.tasks[t].bq)
      ok == SendOk(w, h.ref)
  IN  [w EXCEPT !.sent = IF ok THEN [w.tasks[t].bframe EXCEPT !.to = h.ref] ELSE NoFrame,
                !.conns[h.ref] = IF ok THEN Deliver(@, w.tasks[t].bframe) ELSE @,
                !.tasks[t].bq = IF ok THEN Tail(@) ELSE <<>>,
                !.tasks[t].bfail = IF ok THEN @ ELSE Append(@, h.user)]
\* the task suspended in a broadcast sends to the next pair of its list
task_send_next(w, t) ==
  LET h == Head(w.tasks[t].bq)
      ok == SendOk(w, h.ref)
  IN  [w EXCEPT !.sent = IF ok THEN [w.tasks[t].bframe EXCEPT !.to = h.ref] ELSE NoFrame,
                !.conns[h.ref] = IF ok THEN Deliver(@, w.tasks[t].bframe) ELSE @,
                !.tasks[t].bq = Tail(@),
                !.tasks[t].bfail = IF ok THEN @ ELSE Append(@, h.user)]

task_begin_broadcast(w, t, frame, q, pc) ==
  task_send_next([w EXCEPT !.tasks[t].bframe = frame, !.tasks[t].bq = q,
                           !.tasks[t].bfail = <<>>, !.tasks[t].pc = pc], t)

task_end_broadcast(w, t) ==
  [RemoveAll(w, w.tasks[t].session, w.tasks[t].bfail)
     EXCEPT !.tasks[t].bfail = <<>>, !.tasks[t].bframe = NoFrame]

\* lines 453-456: the finally block, after which the task is finished
run_sync_finally(w, t) ==
  [w EXCEPT !.sess[w.tasks[t].session].is_syncing = FALSE,
            !.sync_tasks = 0,
            !.tasks[t] = NoTask]

\* a cancelled task's next step: a task that never started just ends (the
\* coroutine body, finally included, never runs); a started one takes the
\* CancelledError at its await, lines 444-445 and 453-456
run_sync_cancelled(w, t) ==
  IF w.tasks[t].pc = "created" THEN [w EXCEPT !.tasks[t] = NoTask]
  ELSE run_sync_finally(w, t)

\* a first step that marks the session syncing and goes to sleep without the
\* sync_start broadcast
run_sync_start_quiet(w, t) ==
  IF ~is_ready(w.sess[w.tasks[t].session]) THEN run_sync_finally(w, t)
  ELSE [w EXCEPT !.sess[w.tasks[t].session].is_syncing = TRUE,
                 !.tasks[t].pc = "start_sleep"]
\* lines 189-208: the first step of the task
run_sync_start(w, t) ==
  LET s == w.tasks[t].session
      S == w.sess[s]
  IN  IF ~is_ready(S) THEN run_sync_finally(w, t)
      ELSE IF S.is_synced \/ S.is_syncing THEN run_sync_finally(w, t)
      ELSE task_begin_broadcast([w EXCEPT !.sess[s].is_syncing = TRUE], t,
                                Frame("sync_start", s, t, "", 0, ""),
                                Targets(S, {}), "start_bcast")

\* line 210: sync_start is out, the task sleeps 0.3 s
run_sync_start_sleep(w, t) ==
  [task_end_broadcast(w, t) EXCEPT !.tasks[t].pc = "start_sleep"]

\* lines 398-418: store the round's result r and start the sync_progress
\* broadcast
run_sync_progress(w, t, s, r) ==
  task_begin_broadcast(
    [w EXCEPT !.tpm = [i \in TpmIds |->
                         IF i = w.tasks[t].tpm_b THEN Tpm(r.b)
                         ELSE IF i = w.tasks[t].tpm_a THEN Tpm(r.a)
                         ELSE IF i = w.sess[s].attacker_tpm THEN r.e
                         ELSE @[i]],
              !.tasks[t] = r.T,
              !.sess[s].sync_round = r.T.round_num,
              !.sess[s].attacker_diff = IF w.sess[s].attacker_tpm = 0 THEN @ ELSE r.attacker_diff],
    t, Frame("sync_progress", s, t, "", r.T.round_num, ""),
    Targets(w.sess[s], {}), "progress_bcast")

\* lines 246-418: one iteration of the loop up to the first send of the
\* sync_progress broadcast
run_sync_round(w, t, X) ==
  LET T == w.tasks[t]
      s == T.session
      S == w.sess[s]
  IN  IF Len(S.participants) < 2 THEN run_sync_finally(w, t)
      ELSE run_sync_progress(w, t, s,
             RoundBody(T, w.tpm[T.tpm_a].weights, w.tpm[T.tpm_b].weights,
                       IF S.attacker_tpm = 0 THEN NoTpm ELSE w.tpm[S.attacker_tpm],
                       X, S.tpm_k, S.tpm_n, S.tpm_l))

\* lines 212-244: after the sleep, pick the two TPMs, create the attacker's
\* TPM (weights We) if the session has none, and enter the loop
run_sync_enter(w, t, We, X) ==
  LET s == w.tasks[t].session
      S == w.sess[s]
      a == S.tpms[1].ref
      b == S.tpms[2].ref
      e == FreeTpm(w)
      w1 == [w EXCEPT !.tasks[t].tpm_a = a, !.tasks[t].tpm_b = b]
      w2 == IF S.attacker_tpm # 0 THEN w1
            ELSE [w1 EXCEPT !.sess[s].attacker_tpm = e,
                            !.tpm[e] = Tpm(We),
                            !.sess[s].attacker_diff = WeightDiff(We, w.tpm[a].weights)]
  IN  IF Len(S.tpms) < 2 THEN run_sync_finally(w, t)
      ELSE IF S.attacker_tpm = 0 /\ e = 0 THEN [w EXCEPT !.ok = FALSE]
      ELSE run_sync_round(w2, t, X)

\* a task that does not record the synchronization
StaySyncing(S, key) == S
\* lines 421-423
mark_synced(S, key) ==
  [S EXCEPT !.is_synced = TRUE, !.shared_key = key, !.cipher = NeuralCipher(key)]

\* lines 420-442: sync_progress is out; on a match mark the session synced
\* and broadcast sync_complete, else sleep
run_sync_after_progress(w, t) ==
  LET w1 == task_end_broadcast(w, t)
      T == w1.tasks[t]
      s == T.session
      w2 == [w1 EXCEPT !.sess[s] = mark_synced(@, get_key(w1.tpm[T.tpm_a].weights))]
      q == Targets(w2.sess[s], {})
  IN  IF ~T.weights_match THEN [w1 EXCEPT !.tasks[t].pc = "round_sleep"]
      ELSE IF q = <<>> THEN run_sync_finally(w2, t)
      ELSE task_begin_broadcast([w2 EXCEPT !.sess[s].completes = @ + 1], t,
                                Frame("sync_complete", s, t, "", T.round_num, ""),
                                q, "complete_bcast")

\* line 434: sync_complete is out, the loop breaks
run_sync_after_complete(w, t) == run_sync_finally(task_end_broadcast(w, t), t)

\* an exception that ends the task without the error frame
run_sync_raise_silent(w, t) == run_sync_finally(w, t)
\* lines 446-452: a statement of the task's next step raises an Exception; the
\* handler starts the broadcast of the error frame
run_sync_raise(w, t) ==
  LET s == w.tasks[t].session
      q == Targets(w.sess[s], {})
  IN  IF q = <<>> THEN run_sync_finally(w, t)
      ELSE task_begin_broadcast(w, t, Frame("error", s, t, "", 0, ""), q, "error_bcast")

\* lines 452-456: the error frame is out, the finally block runs
run_sync_after_error(w, t) == run_sync_finally(task_end_broadcast(w, t), t)

\* ---------------------------------------------------------------- actions
ConnBcastPcs == {"connect_bcast", "relay_bcast", "disconnect_bcast"}
TaskBcastPcs == {"start_bcast", "progress_bcast", "complete_bcast", "error_bcast"}

\* a client opens channel c for user u with query parameters cfg; channels are
\* numbered in their order of arrival, and a third channel arrives while no
\* other handler is inside connect
ConnectAttachWith(c, cfgs) ==
  /\ conns[c].pc = "idle"
  /\ \A d \in ConnIds : d < c => conns[d].pc # "idle"
  /\ c > 2 => \A d \in ConnIds : conns[d].pc \notin {"connect_bcast", "connect_info"}
  /\ \E u \in UserChoices(c), cfg \in cfgs :
       LET S == IF sessions = 0 THEN NewSession(cfg[1], cfg[2], cfg[3]) ELSE sess[sessions]
           knl == TpmConfig(S, cfg)
       IN  \E W \in InitialWeights(c, knl[1], knl[2], knl[3]) :
             Commit(connect(World, c, u, cfg, W))

ConnectAttach(c) == ConnectAttachWith(c, ConnectConfigs)

\* a handler suspended in a broadcast's send resumes and sends to the next
ConnBcast(c) ==
  /\ conns[c].pc \in ConnBcastPcs
  /\ conns[c].bq # <<>>
  /\ Commit(conn_send_next(World, c))

ConnectInfo(c) ==
  /\ conns[c].pc = "connect_bcast"
  /\ conns[c].bq = <<>>
  /\ Commit(connect_session_info(World, c))

ConnectReturn(c) ==
  /\ conns[c].pc = "connect_info"
  /\ Commit(connect_return(World, c))

\* the client sends a message frame
RecvMessage(c) ==
  /\ conns[c].pc = "recv"
  /\ conns[c].ws = "open"
  /\ conns[c].msgs < MaxMsgs
  /\ \E ct \in Ciphertexts : Commit(relay_message(World, c, ct))

RelayDone(c) ==
  /\ conns[c].pc = "relay_bcast"
  /\ conns[c].bq = <<>>
  /\ Commit([conn_end_broadcast(World, c) EXCEPT !.conns[c].pc = "recv", !.conns[c].cur = 0])

\* the client sends request_sync
RecvRequestSync(c) ==
  /\ conns[c].pc = "recv"
  /\ conns[c].ws = "open"
  /\ Commit(StartIfIdle(World, conns[c].session))

\* the client goes away or the transport fails
ChannelBreak(c) ==
  /\ conns[c].ws = "open"
  /\ Commit([World EXCEPT !.conns[c].ws = "broken"])

\* receive_json raises WebSocketDisconnect, or the keepalive ping of the 30 s
\* timeout cannot be sent: the handler's finally runs disconnect
HandlerExit(c) ==
  /\ conns[c].pc = "recv"
  /\ conns[c].ws = "broken"
  /\ Commit(disconnect(World, c))

DisconnectDone(c) ==
  /\ conns[c].pc = "disconnect_bcast"
  /\ conns[c].bq = <<>>
  /\ Commit(disconnect_cleanup(World, c))

TaskCancelled(t) ==
  /\ tasks[t].pc # "none"
  /\ tasks[t].cancelled
  /\ Commit(run_sync_cancelled(World, t))

TaskStart(t) ==
  /\ tasks[t].pc = "created"
  /\ ~tasks[t].cancelled
  /\ Commit(run_sync_start(World, t))

TaskBcast(t) ==
  /\ tasks[t].pc \in TaskBcastPcs
  /\ ~tasks[t].cancelled
  /\ tasks[t].bq # <<>>
  /\ Commit(task_send_next(World, t))

TaskStartSleep(t) ==
  /\ tasks[t].pc = "start_bcast"
  /\ ~tasks[t].cancelled
  /\ tasks[t].bq = <<>>
  /\ Commit(run_sync_start_sleep(World, t))

TaskEnter(t) ==
  /\ tasks[t].pc = "start_sleep"
  /\ ~tasks[t].cancelled
  /\ LET S == sess[tasks[t].session]
     IN  \E We \in AttackerWeights(S.tpm_k, S.tpm_n, S.tpm_l), X \in InputSpace(S.tpm_k, S.tpm_n) :
           Commit(run_sync_enter(World, t, We, X))

TaskRound(t) ==
  /\ tasks[t].pc = "round_sleep"
  /\ ~tasks[t].cancelled
  /\ LET S == sess[tasks[t].session]
     IN  /\ tasks[t].round_num < MaxRounds \/ Len(S.participants) < 2
         /\ \E X \in InputSpace(S.tpm_k, S.tpm_n) : Commit(run_sync_round(World, t, X))

TaskAfterProgress(t) ==
  /\ tasks[t].pc = "progress_bcast"
  /\ ~tasks[t].cancelled
  /\ tasks[t].bq = <<>>
  /\ Commit(run_sync_after_progress(World, t))

TaskAfterComplete(t) ==
  /\ tasks[t].pc = "complete_bcast"
  /\ ~tasks[t].cancelled
  /\ tasks[t].bq = <<>>
  /\ Commit(run_sync_after_complete(World, t))

\* the step the task takes after a sleep raises an Exception (a failure of
\* the numpy calls of lines 213-399, for one)
TaskRaise(t) ==
  /\ tasks[t].pc \in {"start_sleep", "round_sleep"}
  /\ ~tasks[t].cancelled
  /\ Commit(run_sync_raise(World, t))

TaskAfterError(t) ==
  /\ tasks[t].pc = "error_bcast"
  /\ ~tasks[t].cancelled
  /\ tasks[t].bq = <<>>
  /\ Commit(run_sync_after_error(World, t))

Init ==
  /\ sessions = 0
  /\ sess = [s \in SessIds |-> NoSession]
  /\ sync_tasks = 0
  /\ tasks = [t \in TaskIds |-> NoTask]
  /\ conns = [c \in ConnIds |-> NewConn]
  /\ tpm = [i \in TpmIds |-> NoTpm]
  /\ sent = NoFrame
  /\ obj = None

\* the coordinator with three connections and no chat traffic
Next ==
  \/ \E c \in ConnIds : ConnectAttach(c)
  \/ \E c \in ConnIds : ConnBcast(c)
  \/ \E c \in ConnIds : ConnectInfo(c)
  \/ \E c \in ConnIds : ConnectReturn(c)
  \/ \E c \in ConnIds : RecvRequestSync(c)
  \/ \E c \in ConnIds : ChannelBreak(c)
  \/ \E c \in ConnIds : HandlerExit(c)
  \/ \E c \in ConnIds : DisconnectDone(c)
  \/ \E t \in TaskIds : TaskCancelled(t)
  \/ \E t \in TaskIds : TaskStart(t)
  \/ \E t \in TaskIds : TaskBcast(t)
  \/ \E t \in TaskIds : TaskStartSleep(t)
  \/ \E t \in TaskIds : TaskEnter(t)
  \/ \E t \in TaskIds : TaskRound(t)
  \/ \E t \in TaskIds : TaskAfterProgress(t)
  \/ \E t \in TaskIds : TaskAfterComplete(t)

Spec == Init /\ [][Next]_vars

\* the coordinator with the first two connections only, chat traffic included
\* (at most MaxMsgs message frames per channel); with two channels a handler's
\* broadcast has one target at most, so that no handler takes a ConnBcast step
PairIds == {c \in ConnIds : c <= 2}

NextRelay ==
  \/ \E c \in PairIds : ConnectAttach(c)
  \/ \E c \in PairIds : ConnectInfo(c)
  \/ \E c \in PairIds : ConnectReturn(c)
  \/ \E c \in PairIds : RecvMessage(c)
  \/ \E c \in PairIds : RelayDone(c)
  \/ \E c \in PairIds : RecvRequestSync(c)
  \/ \E c \in PairIds : ChannelBreak(c)
  \/ \E c \in PairIds : HandlerExit(c)
  \/ \E c \in PairIds : DisconnectDone(c)
  \/ \E t \in TaskIds : TaskCancelled(t)
  \/ \E t \in TaskIds : TaskStart(t)
  \/ \E t \in TaskIds : TaskBcast(t)
  \/ \E t \in TaskIds : TaskStartSleep(t)
  \/ \E t \in TaskIds : TaskEnter(t)
  \/ \E t \in TaskIds : TaskRound(t)
  \/ \E t \in TaskIds : TaskAfterProgress(t)
  \/ \E t \in TaskIds : TaskAfterComplete(t)

SpecRelay == Init /\ [][NextRelay]_vars

\* schemas.py lines 71-75: the Field(ge=, le=) constraints of SessionCreate
SessionCreateValid(cfg) ==
  /\ 1 <= cfg[1] /\ cfg[1] <= 32
  /\ 1 <= cfg[2] /\ cfg[2] <= 64
  /\ 1 <= cfg[3] /\ cfg[3] <= 10

\* main.py lines 57-85: POST /sessions registers a session under a fresh id
create_session(w, cfg) ==
  LET s == FreeSess(w)
  IN  IF s = 0 THEN [w EXCEPT !.ok = FALSE]
      ELSE [w EXCEPT !.sessions = s, !.sess[s] = NewSession(cfg[1], cfg[2], cfg[3])]

\* a client posts to /sessions; a body that fails validation is answered 422
\* before create_session runs
CreateSession ==
  /\ sessions = 0
  /\ \E cfg \in RequestConfigs :
       /\ SessionCreateValid(cfg)
       /\ Commit(create_session(World, cfg))

\* the coordinator with the first two connections, whose session is created
\* by POST /sessions or by the first connect, with any RequestConfigs
NextParams ==
  \/ CreateSession
  \/ \E c \in PairIds : ConnectAttachWith(c, RequestConfigs)
  \/ \E c \in PairIds : ConnectInfo(c)
  \/ \E c \in PairIds : ConnectReturn(c)
  \/ \E c \in PairIds : RecvRequestSync(c)
  \/ \E c \in PairIds : ChannelBreak(c)
  \/ \E c \in PairIds : HandlerExit(c)
  \/ \E c \in PairIds : DisconnectDone(c)
  \/ \E t \in TaskIds : TaskCancelled(t)
  \/ \E t \in TaskIds : TaskStart(t)
  \/ \E t \in TaskIds : TaskBcast(t)
  \/ \E t \in TaskIds : TaskStartSleep(t)
  \/ \E t \in TaskIds : TaskEnter(t)
  \/ \E t \in TaskIds : TaskRound(t)
  \/ \E t \in TaskIds : TaskAfterProgress(t)
  \/ \E t \in TaskIds : TaskAfterComplete(t)

SpecParams == Init /\ [][NextParams]_vars

\* the coordinator whose clients never send request_sync: the steps of the
\* handlers and of the tasks (the event loop runs every coroutine that is
\* ready), and the clients' attaching and going away
ServerStep ==
  \/ \E c \in ConnIds : ConnBcast(c)
  \/ \E c \in ConnIds : ConnectInfo(c)
  \/ \E c \in ConnIds : ConnectReturn(c)
  \/ \E c \in ConnIds : HandlerExit(c)
  \/ \E c \in ConnIds : DisconnectDone(c)
  \/ \E t \in TaskIds : TaskCancelled(t)
  \/ \E t \in TaskIds : TaskStart(t)
  \/ \E t \in TaskIds : TaskBcast(t)
  \/ \E t \in TaskIds : TaskStartSleep(t)
  \/ \E t \in TaskIds : TaskEnter(t)
  \/ \E t \in TaskIds : TaskRound(t)
  \/ \E t \in TaskIds : TaskAfterProgress(t)
  \/ \E t \in TaskIds : TaskAfterComplete(t)

NextLive ==
  \/ \E c \in ConnIds : ConnectAttach(c)
  \/ \E c \in ConnIds : ChannelBreak(c)
  \/ ServerStep

\* the coroutines the event loop can run: a handler inside a broadcast, back
\* from connect's last send, or on a broken channel (receive raises, or the
\* keepalive ping of the 30 s timeout fails); a task that is cancelled, or has
\* a step to take (the model stops a task's loop after MaxRounds rounds)
ConnReady(c) ==
  \/ conns[c].pc \in ConnBcastPcs
  \/ conns[c].pc = "connect_info"
  \/ conns[c].pc = "recv" /\ conns[c].ws = "broken"

TaskReady(t) ==
  /\ tasks[t].pc # "none"
  /\ \/ tasks[t].cancelled
     \/ tasks[t].pc # "round_sleep"
     \/ tasks[t].round_num < MaxRounds
     \/ Len(sess[tasks[t].session].participants) < 2

\* the enabling condition of ServerStep
ServerReady == (\E c \in ConnIds : ConnReady(c)) \/ (\E t \in TaskIds : TaskReady(t))

\* the event loop does not stop while a coroutine is ready: WF_vars(ServerStep),
\* with ENABLED <<ServerStep>>_vars written out as ServerReady
SpecLive ==
  Init /\ [][NextLive]_vars /\ ([]<>(~ServerReady) \/ []<><<ServerStep>>_vars)

\* the coordinator whose sync task may fail with an exception (no
\* request_sync traffic)
NextFault ==
  \/ NextLive
  \/ \E t \in TaskIds : TaskRaise(t)
  \/ \E t \in TaskIds : TaskAfterError(t)

SpecFault == Init /\ [][NextFault]_vars

\* ------------------------------------------------- the round as a function
\* (K, N, L) of the sessions the round is applied in: K * N * 2L is 10 for the
\* first (a distance of 1 is 90% progress) and 8 for the second (a distance of
\* 1 is 87.5%)
RoundConfigs == {<<1, 1, 5>>, <<2, 1, 2>>}

\* a session in its sync loop: two participants with TPMs 1 and 2 and the
\* attacker's TPM 3, with weights as TreeParityMachine.__init__ may draw them
\* (any matrix for the participants, a corner for the attacker)
InitRound ==
  \E cfg \in RoundConfigs :
    \E A \in WeightSpace(cfg[1], cfg[2], cfg[3]),
       B \in WeightSpace(cfg[1], cfg[2], cfg[3]),
       E \in CornerWeights(cfg[1], cfg[2], cfg[3]) :
      /\ sessions = 1
      /\ sess = [s \in SessIds |->
                   IF s # 1 THEN NoSession
                   ELSE [NewSession(cfg[1], cfg[2], cfg[3]) EXCEPT
                           !.participants = <<[user |-> "alice", ref |-> 1],
                                              [user |-> "bob", ref |-> 2]>>,
                           !.tpms = <<[user |-> "alice", ref |-> 1],
                                      [user |-> "bob", ref |-> 2]>>,
                           !.attacker_tpm = 3,
                           !.is_syncing = TRUE]]
      /\ sync_tasks = 0
      /\ tasks = [t \in TaskIds |-> NoTask]
      /\ conns = [c \in ConnIds |-> NewConn]
      /\ tpm = [i \in TpmIds |->
                  IF i = 1 THEN Tpm(A) ELSE IF i = 2 THEN Tpm(B)
                  ELSE IF i = 3 THEN Tpm(E) ELSE NoTpm]
      /\ sent = NoFrame
      /\ obj = None

\* the session's TPMs and fields after a round with result r (lines 398-399
\* and the in-place updates of lines 257-355)
RoundStore(r) ==
  /\ tpm' = [tpm EXCEPT ![1] = Tpm(r.a), ![2] = Tpm(r.b), ![3] = r.e]
  /\ sess' = [sess EXCEPT ![1].sync_round = r.T.round_num,
                          ![1].attacker_diff = r.attacker_diff]
  /\ UNCHANGED <<sessions, sync_tasks, tasks, conns, sent, obj>>

\* lines 251-398 applied to the session's TPMs for an input X, under the
\* learning rule the loop has reached
RoundStep ==
  \E rule \in Rules, X \in InputSpace(sess[1].tpm_k, sess[1].tpm_n) :
    RoundStore(RoundBody([NewTask(1) EXCEPT !.learning_rule = rule],
                         tpm[1].weights, tpm[2].weights, tpm[3], X,
                         sess[1].tpm_k, sess[1].tpm_n, sess[1].tpm_l))

NextRound == RoundStep

SpecRound == InitRound /\ [][NextRound]_vars

\* ------------------------------------------------------------ NeuralCipher
\* byte strings the cipher is built from: shorter than 32 bytes (hashed),
\* exactly 32 bytes, and longer (cut to 32)
CipherKeys ==
  {<<>>, <<7, 7, 7>>, [i \in 1..32 |-> i], [i \in 1..32 |-> 33 - i], [i \in 1..40 |-> 2 * i]}
\* the code points of the messages: one, two, three and four bytes in UTF-8
CodePoints == {65, 233, 8364, 128512}
\* the longest message, in code points
MaxText == 2
\* the nonces get_random_bytes(12) may return
Nonces == {[i \in 1..12 |-> 0], [i \in 1..12 |-> 20 * i]}
Texts == UNION {[1..n -> CodePoints] : n \in 0..MaxText}

\* str.encode('utf-8')
Utf8Char(cp) ==
  IF cp < 128 THEN <<cp>>
  ELSE IF cp < 2048 THEN <<192 + (cp \div 64), 128 + (cp % 64)>>
  ELSE IF cp < 65536 THEN <<224 + (cp \div 4096), 128 + ((cp \div 64) % 64), 128 + (cp % 64)>>
  ELSE <<240 + (cp \div 262144), 128 + ((cp \div 4096) % 64), 128 + ((cp \div 64) % 64), 128 + (cp % 64)>>
RECURSIVE Utf8Encode(_)
Utf8Encode(text) == IF text = <<>> THEN <<>> ELSE Utf8Char(Head(text)) \o Utf8Encode(Tail(text))

\* a decoding that takes every byte for a character
RECURSIVE Latin1Decode(_)
Latin1Decode(b) == IF b = <<>> THEN <<>> ELSE <<Head(b)>> \o Latin1Decode(Tail(b))
\* bytes.decode('utf-8') of well-formed input
RECURSIVE Utf8Decode(_)
Utf8Decode(b) ==
  IF b = <<>> THEN <<>>
  ELSE IF b[1] < 128 THEN <<b[1]>> \o Utf8Decode(SubSeq(b, 2, Len(b)))
  ELSE IF b[1] < 224
  THEN <<(b[1] - 192) * 64 + (b[2] - 128)>> \o Utf8Decode(SubSeq(b, 3, Len(b)))
  ELSE IF b[1] < 240
  THEN <<(b[1] - 224) * 4096 + (b[2] - 128) * 64 + (b[3] - 128)>>
         \o Utf8Decode(SubSeq(b, 4, Len(b)))
  ELSE <<(b[1] - 240) * 262144 + (b[2] - 128) * 4096 + (b[3] - 128) * 64 + (b[4] - 128)>>
         \o Utf8Decode(SubSeq(b, 5, Len(b)))

\* base64.b64encode: the characters as their indices in the alphabet, the
\* padding '=' as B64Pad (the str of line 57 holds these ASCII characters)
B64Pad == 64
RECURSIVE B64Encode(_)
B64Encode(b) ==
  IF b = <<>> THEN <<>>
  ELSE IF Len(b) = 1 THEN <<(b[1] \div 4), (b[1] % 4) * 16, B64Pad, B64Pad>>
  ELSE IF Len(b) = 2
  THEN <<(b[1] \div 4), (b[1] % 4) * 16 + (b[2] \div 16), (b[2] % 16) * 4, B64Pad>>
  ELSE <<(b[1] \div 4), (b[1] % 4) * 16 + (b[2] \div 16), (b[2] % 16) * 4 + (b[3] \div 64), b[3] % 64>>
         \o B64Encode(SubSeq(b, 4, Len(b)))
\* base64.b64decode of well-formed input
RECURSIVE B64Decode(_)
B64Decode(e) ==
  IF e = <<>> THEN <<>>
  ELSE IF e[3] = B64Pad THEN <<e[1] * 4 + (e[2] \div 16)>>
  ELSE IF e[4] = B64Pad THEN <<e[1] * 4 + (e[2] \div 16), (e[2] % 16) * 16 + (e[3] \div 4)>>
  ELSE <<e[1] * 4 + (e[2] \div 16), (e[2] % 16) * 16 + (e[3] \div 4), (e[3] % 4) * 64 + e[4]>>
         \o B64Decode(SubSeq(e, 5, Len(e)))

\* NeuralCipher.__init__ for a key given as bytes: lines 31-34; hashed tells
\* whether self.key is the SHA-256 digest of the bytes
CipherOf(key) ==
  IF Len(key) < 32 THEN [hashed |-> TRUE, key |-> key]
  ELSE [hashed |-> FALSE, key |-> SubSeq(key, 1, 32)]

\* Crypto.Cipher.AES in GCM mode, as a stand-in with its algebra: a key
\* stream from (key, nonce) added bytewise, and a 16-byte tag over key, nonce
\* and ciphertext
KeyStream(C, nonce, i) == (SumSeq(C.key) + (IF C.hashed THEN 99 ELSE 0) + SumSeq(nonce) + 31 * i) % 256
GcmTag(C, nonce, ct) == [j \in 1..16 |-> (SumSeq(ct) + KeyStream(C, nonce, j) + Len(ct)) % 256]
encrypt_and_digest(C, nonce, pt) ==
  LET ct == [i \in 1..Len(pt) |-> (pt[i] + KeyStream(C, nonce, i)) % 256]
  IN  [ciphertext |-> ct, tag |-> GcmTag(C, nonce, ct)]
decrypt_and_verify(C, nonce, ct, tag) ==
  IF tag # GcmTag(C, nonce, ct) THEN [ok |-> FALSE, plaintext |-> <<>>]
  ELSE [ok |-> TRUE,
        plaintext |-> [i \in 1..Len(ct) |-> (ct[i] + 256 - KeyStream(C, nonce, i)) % 256]]

\* NeuralCipher.encrypt with the nonce get_random_bytes returned
encrypt(C, plaintext, nonce) ==
  LET r == encrypt_and_digest(C, nonce, Utf8Encode(plaintext))
  IN  B64Encode(nonce \o r.tag \o r.ciphertext)

\* NeuralCipher.decrypt: ok is FALSE when ValueError is raised
decrypt(C, encrypted) ==
  LET combined == B64Decode(encrypted)
      nonce == SubSeq(combined, 1, 12)
      tag == SubSeq(combined, 13, 28)
      ciphertext == SubSeq(combined, 29, Len(combined))
      r == decrypt_and_verify(C, nonce, ciphertext, tag)
  IN  IF Len(combined) < 28 \/ ~r.ok THEN [ok |-> FALSE, text |-> <<>>]
      ELSE [ok |-> TRUE, text |-> Utf8Decode(r.plaintext)]

\* a round trip: two ciphers are built from one key and a message; the first
\* encrypts, the second decrypts
InitCipher ==
  /\ sessions = 0
  /\ sess = [s \in SessIds |-> NoSession]
  /\ sync_tasks = 0
  /\ tasks = [t \in TaskIds |-> NoTask]
  /\ conns = [c \in ConnIds |-> NewConn]
  /\ tpm = [i \in TpmIds |-> NoTpm]
  /\ sent = NoFrame
  /\ \E k \in CipherKeys, m \in Texts :
       obj = [at |-> "built", sender |-> CipherOf(k), receiver |-> CipherOf(k),
              plaintext |-> m, encrypted |-> <<>>, decrypted |-> [ok |-> FALSE, text |-> <<>>]]

CipherEncrypt ==
  /\ obj.at = "built"
  /\ \E nonce \in Nonces :
       obj' = [obj EXCEPT !.at = "encrypted", !.encrypted = encrypt(obj.sender, obj.plaintext, nonce)]
  /\ UNCHANGED <<sessions, sess, sync_tasks, tasks, conns, tpm, sent>>

CipherDecrypt ==
  /\ obj.at = "encrypted"
  /\ obj' = [obj EXCEPT !.at = "decrypted", !.decrypted = decrypt(obj.receiver, obj.encrypted)]
  /\ UNCHANGED <<sessions, sess, sync_tasks, tasks, conns, tpm, sent>>

NextCipher == CipherEncrypt \/ CipherDecrypt

SpecCipher == InitCipher /\ [][NextCipher]_vars

\* ------------------------------------------- the loop's adaptive tracking
\* rounds of one run of the tracking
MaxTrackRounds == 110
\* changes of the progress level in one run
MaxJumps == 1
\* (K, N, L) of the session: max_possible_diff is 200
TrackConfig == <<10, 1, 10>>
TrackDen == ProgressDen(MaxPossibleDiff(TrackConfig[1], TrackConfig[2], TrackConfig[3]))
\* the values of max_possible_diff - weight_diff the rounds compute: progress
\* 0.5, 0.505, 0.515 and 0.855
TrackLevels == {100, 101, 103, 171}

\* a sync task at line 246 with the locals of lines 234-243; obj is the
\* progress of the last round and the number of times it changed
InitTrack ==
  /\ sessions = 0
  /\ sess = [s \in SessIds |-> NoSession]
  /\ sync_tasks = 0
  /\ tasks = [t \in TaskIds |-> IF t = 1 THEN [NewTask(1) EXCEPT !.pc = "round_sleep"] ELSE NoTask]
  /\ conns = [c \in ConnIds |-> NewConn]
  /\ tpm = [i \in TpmIds |-> NoTpm]
  /\ sent = NoFrame
  /\ \E num \in TrackLevels : obj = [progress |-> num, jumps |-> 0]

\* lines 251 and 357-396 of one round whose progress is num / TrackDen
TrackRound ==
  /\ tasks[1].round_num < MaxTrackRounds
  /\ \E num \in TrackLevels :
       /\ num = obj.progress \/ obj.jumps < MaxJumps
       /\ tasks' = [tasks EXCEPT ![1] =
                      RoundScore(@, CapHistory(Append(@.progress_history, num)), num, TrackDen, FALSE)]
       /\ obj' = [progress |-> num, jumps |-> IF num = obj.progress THEN obj.jumps ELSE obj.jumps + 1]
  /\ UNCHANGED <<sessions, sess, sync_tasks, conns, tpm, sent>>

NextTrack == TrackRound

SpecTrack == InitTrack /\ [][NextTrack]_vars

\* ------------------------------------------------------ NeuralSyncProtocol
\* the largest max_rounds of a protocol object; direct calls of run_round are
\* made up to one round beyond it
MaxProtoRounds == 2
\* (K, N, L) of the protocol objects
ProtoConfigs == {<<1, 1, 1>>, <<2, 1, 1>>}

\* SyncState()
NewSyncState == [round |-> 0, agreements |-> 0, is_synced |-> FALSE, key_hash |-> None]
\* get_key_hex()[:16]: the first 16 hex digits of the key
KeyHash(W) == [hex16 |-> get_key(W)]
\* b''
EmptyKey == [empty |-> TRUE]
NoResult == [set |-> FALSE, success |-> FALSE, rounds |-> 0, key |-> EmptyKey]

\* NeuralSyncProtocol.__init__ with the weights the two TPMs drew; at is
\* "idle" between calls and "full_sync" inside the loop of run_full_sync, last
\* the call that ended last, raised the exception it ended with ("" when it
\* returned), ret what run_full_sync returned; calls counts the run_round
\* calls of the running run_full_sync and round0 is state.round at its start
\* (history fields)
NeuralSyncProtocol(cfg, rule, max_rounds, A, B) ==
  [at |-> "idle", K |-> cfg[1], N |-> cfg[2], L |-> cfg[3],
   learning_rule |-> rule, max_rounds |-> max_rounds,
   tpm_a |-> A, tpm_b |-> B, state |-> NewSyncState,
   last |-> "", raised |-> "", ret |-> NoResult, calls |-> 0, round0 |-> 0]

\* a round in which TPM B learns with the next rule of the cycle
run_round_skew(P, X) ==
  LET oa == compute_output(P.tpm_a, X)
      ob == compute_output(P.tpm_b, X)
      A1 == update_weights(P.tpm_a, X, oa.tau, ob.tau, oa.sigma, P.learning_rule, P.L)
      B1 == update_weights(P.tpm_b, X, ob.tau, oa.tau, ob.sigma, NextRule(P.learning_rule), P.L)
  IN  IF P.state.is_synced THEN [P EXCEPT !.raised = "RuntimeError"]
      ELSE [P EXCEPT !.tpm_a = A1, !.tpm_b = B1, !.raised = "",
                     !.state = [round |-> @.round + 1,
                                agreements |-> @.agreements + (IF oa.tau = ob.tau THEN 1 ELSE 0),
                                is_synced |-> A1 = B1,
                                key_hash |-> IF A1 = B1 THEN KeyHash(A1) ELSE @.key_hash]]
\* NeuralSyncProtocol.run_round for the input X
run_round(P, X) ==
  LET oa == compute_output(P.tpm_a, X)
      ob == compute_output(P.tpm_b, X)
      A1 == update_weights(P.tpm_a, X, oa.tau, ob.tau, oa.sigma, P.learning_rule, P.L)
      B1 == update_weights(P.tpm_b, X, ob.tau, oa.tau, ob.sigma, P.learning_rule, P.L)
  IN  IF P.state.is_synced THEN [P EXCEPT !.raised = "RuntimeError"]
      ELSE [P EXCEPT !.tpm_a = A1, !.tpm_b = B1, !.raised = "",
                     !.state = [round |-> @.round + 1,
                                agreements |-> @.agreements + (IF oa.tau = ob.tau THEN 1 ELSE 0),
                                is_synced |-> A1 = B1,
                                key_hash |-> IF A1 = B1 THEN KeyHash(A1) ELSE @.key_hash]]

\* a result that always carries the key of TPM A
full_sync_result_keyed(P) ==
  [set |-> TRUE, success |-> P.state.is_synced, rounds |-> P.state.round, key |-> get_key(P.tpm_a)]
\* run_full_sync, lines 152-156: the tuple returned
full_sync_result(P) ==
  [set |-> TRUE, success |-> P.state.is_synced, rounds |-> P.state.round,
   key |-> IF P.state.is_synced THEN get_key(P.tpm_a) ELSE EmptyKey]

\* run_full_sync, line 149: the loop's condition
full_sync_continues(P) == ~P.state.is_synced /\ P.state.round < P.max_rounds

\* NeuralSyncProtocol.reset: line 182 calls TreeParityMachine.reset, which the
\* class does not define, so AttributeError is raised before anything changes
reset(P) == [P EXCEPT !.raised = "AttributeError"]

\* a protocol object as constructed, for any weights the two TPMs may draw
InitProto ==
  /\ sessions = 0
  /\ sess = [s \in SessIds |-> NoSession]
  /\ sync_tasks = 0
  /\ tasks = [t \in TaskIds |-> NoTask]
  /\ conns = [c \in ConnIds |-> NewConn]
  /\ tpm = [i \in TpmIds |-> NoTpm]
  /\ sent = NoFrame
  /\ \E cfg \in ProtoConfigs, rule \in Rules, max_rounds \in 0..MaxProtoRounds :
       \E A \in WeightSpace(cfg[1], cfg[2], cfg[3]), B \in WeightSpace(cfg[1], cfg[2], cfg[3]) :
         obj = NeuralSyncProtocol(cfg, rule, max_rounds, A, B)

\* a caller calls run_round()
ProtoRunRound ==
  /\ obj.at = "idle"
  /\ obj.state.round <= MaxProtoRounds
  /\ \E X \in InputSpace(obj.K, obj.N) :
       obj' = [run_round(obj, X) EXCEPT !.last = "run_round", !.ret = NoResult]
  /\ UNCHANGED <<sessions, sess, sync_tasks, tasks, conns, tpm, sent>>

\* a caller calls run_full_sync()
ProtoFullSync ==
  /\ obj.at = "idle"
  /\ obj' = [obj EXCEPT !.at = "full_sync", !.calls = 0, !.round0 = obj.state.round,
                        !.ret = NoResult, !.raised = ""]
  /\ UNCHANGED <<sessions, sess, sync_tasks, tasks, conns, tpm, sent>>

\* one iteration of the loop of run_full_sync
ProtoFullSyncRound ==
  /\ obj.at = "full_sync"
  /\ full_sync_continues(obj)
  /\ \E X \in InputSpace(obj.K, obj.N) :
       obj' = [run_round(obj, X) EXCEPT !.calls = @ + 1]
  /\ UNCHANGED <<sessions, sess, sync_tasks, tasks, conns, tpm, sent>>

\* the loop ends and run_full_sync returns
ProtoFullSyncReturn ==
  /\ obj.at = "full_sync"
  /\ ~full_sync_continues(obj)
  /\ obj' = [obj EXCEPT !.at = "idle", !.last = "run_full_sync", !.ret = full_sync_result(obj)]
  /\ UNCHANGED <<sessions, sess, sync_tasks, tasks, conns, tpm, sent>>

\* a caller calls reset()
ProtoReset ==
  /\ obj.at = "idle"
  /\ obj' = [reset(obj) EXCEPT !.last = "reset", !.ret = NoResult]
  /\ UNCHANGED <<sessions, sess, sync_tasks, tasks, conns, tpm, sent>>

NextProto ==
  \/ ProtoRunRound
  \/ ProtoFullSync
  \/ ProtoFullSyncRound
  \/ ProtoFullSyncReturn
  \/ ProtoReset

SpecProto == InitProto /\ [][NextProto]_vars

\* ------------------------------------------------------------- properties
\* the TPMs a session holds: its participants' and the attacker's
SessionTpms(S) == ({S.tpms[i].ref : i \in DOMAIN S.tpms} \cup {S.attacker_tpm}) \ {0}

InRange(W, L) == \A k \in DOMAIN W : \A n \in DOMAIN W[k] : -L <= W[k][n] /\ W[k][n] <= L

\* the tasks alive for session object s
AliveTasks(s) == {t \in TaskIds : tasks[t].pc # "none" /\ tasks[t].session = s}

\* C1: in every reachable state a synced session's two participant TPMs
\* (session.tpms) hold identical weight matrices
C1_SyncedTpmsEqual ==
  \A s \in SessIds :
    sess[s].live /\ sess[s].is_synced /\ Len(sess[s].tpms) = 2
      => tpm[sess[s].tpms[1].ref].weights = tpm[sess[s].tpms[2].ref].weights

\* C2: in every reachable state each session's participant map has at most
\* two entries
C2_AtMostTwoParticipants ==
  \A s \in SessIds : Len(sess[s].participants) <= 2

\* a third channel has attached to a session that holds two participants
C2_ThirdChannelAttached ==
  \E c \in ConnIds :
    /\ c > 2
    /\ conns[c].pc = "recv"
    /\ conns[c].session # 0
    /\ Len(sess[conns[c].session].participants) = 2

\* C3: at every moment at most one sync task is alive for a session, a
\* cancelled task that has not yet ended included
C3_OneTaskAlive ==
  \A s \in SessIds : Cardinality(AliveTasks(s)) <= 1

\* a step in which handler c runs disconnect while a task is registered
DisconnectsRegistered(c) ==
  /\ conns[c].pc = "recv"
  /\ conns'[c].pc \in {"disconnect_bcast", "done"}
  /\ sessions # 0
  /\ sync_tasks # 0

C5_EmptySessionRemoved ==
  [][ \A c \in ConnIds :
        (/\ conns[c].pc \in {"recv", "disconnect_bcast"}
         /\ conns'[c].pc = "done"
         /\ sessions # 0
         /\ sess'[sessions].participants = <<>>)
          => sessions' = 0 ]_vars

\* C6: when a handler leaves its receive loop and disconnect leaves another
\* user attached on an open channel, the step sends that user a user_left
\* frame naming the leaver
C6_UserLeftSent ==
  [][ \A c \in ConnIds :
        (/\ conns[c].pc = "recv"
         /\ conns'[c].pc \in {"disconnect_bcast", "done"}
         /\ sessions # 0
         /\ \E i \in DOMAIN sess'[sessions].participants :
              /\ sess'[sessions].participants[i].user # conns[c].user
              /\ conns[sess'[sessions].participants[i].ref].ws = "open")
          => sent'.type = "user_left" /\ sent'.user = conns[c].user ]_vars

\* C7: in every reachable state, a connect by a user who is not a participant
\* of the registered session holding two participants yields the SESSION_FULL
\* error frame on the new channel, ends the handler with the channel closed and
\* no disconnect to run, and leaves registry, sessions, TPMs and tasks as they
\* were; and every step that ends a fresh handler is such a rejection
C7_ThirdPartyRejected ==
  /\ [](\A c \in ConnIds, u \in {"alice", "bob", "carol"}, cfg \in ConnectConfigs :
          (/\ conns[c].pc = "idle"
           /\ sessions # 0
           /\ Len(sess[sessions].participants) = 2
           /\ u \notin Keys(sess[sessions].participants))
            => LET w == connect(World, c, u, cfg, <<>>)
               IN  /\ w.ok
                   /\ w.sent = [Frame("error", sessions, 0, u, 0, "SESSION_FULL") EXCEPT !.to = c]
                   /\ w.conns[c] = DoneConn
                   /\ w.conns = [conns EXCEPT ![c] = DoneConn]
                   /\ w.sessions = sessions /\ w.sess = sess /\ w.tpm = tpm
                   /\ w.sync_tasks = sync_tasks /\ w.tasks = tasks)
  /\ [][ \A c \in ConnIds :
           conns[c].pc = "idle" /\ conns'[c].pc = "done"
             => /\ sent'.type = "error" /\ sent'.code = "SESSION_FULL" /\ sent'.to = c
                /\ conns'[c].ws = "closed"
                /\ UNCHANGED <<sessions, sess, tpm, sync_tasks, tasks>> ]_vars

\* a third party has just been rejected from a session with two participants
C7_Rejected ==
  /\ sent.type = "error"
  /\ sent.code = "SESSION_FULL"
  /\ sent.user = "carol"
  /\ conns[sent.to].pc = "done"
  /\ sessions # 0
  /\ Len(sess[sessions].participants) = 2

\* C8: every weight of every TPM a session holds, the attacker's included,
\* lies in [-L, L], at creation and after every round
C8_WeightsInRange ==
  \A s \in SessIds :
    sess[s].live => \A i \in SessionTpms(sess[s]) : InRange(tpm[i].weights, sess[s].tpm_l)

\* a round has run and left the two participants equal with a weight at a
\* bound, the attacker apart from them
C8_RoundAtBound ==
  /\ sess[1].sync_round = 1
  /\ tpm[1].weights = tpm[2].weights
  /\ \E k \in DOMAIN tpm[1].weights : \E n \in DOMAIN tpm[1].weights[k] :
       Abs(tpm[1].weights[k][n]) = sess[1].tpm_l
  /\ sess[1].attacker_diff > 0

\* C9: a synced session has its shared_key and its cipher set; the step that
\* sets is_synced stores the key of the task's TPM A as it is at that step and
\* the cipher made of it, and the key never changes afterwards
C9_SyncedHasKey ==
  /\ [](\A s \in SessIds :
          sess[s].live /\ sess[s].is_synced
            => sess[s].shared_key # None /\ sess[s].cipher # None)
  /\ [][ \A s \in SessIds :
           /\ (sess'[s].live /\ sess'[s].is_synced /\ ~sess[s].is_synced)
                => \E t \in TaskIds :
                     /\ tasks[t].session = s
                     /\ tasks[t].pc = "progress_bcast"
                     /\ sess'[s].shared_key = get_key(tpm[tasks[t].tpm_a].weights)
                     /\ sess'[s].cipher = NeuralCipher(sess'[s].shared_key)
           /\ (sess[s].is_synced /\ sess'[s].live)
                => /\ sess'[s].is_synced
                   /\ sess'[s].shared_key = sess[s].shared_key
                   /\ sess'[s].cipher = sess[s].cipher ]_vars

\* a session is synced while its task is still sending sync_complete
C9_SyncedAtSuspension ==
  \E t \in TaskIds :
    /\ tasks[t].pc = "complete_bcast"
    /\ sess[tasks[t].session].is_synced
    /\ sess[tasks[t].session].shared_key = get_key(tpm[tasks[t].tpm_a].weights)

\* C10: a session starts the sync_complete broadcast at most once, and once it
\* has, no step sends a sync_start or sync_progress frame for it
C10_CompleteIsFinal ==
  /\ [](\A s \in SessIds : sess[s].completes <= 1)
  /\ [][ \A s \in SessIds :
           sess[s].live /\ sess[s].completes > 0
             => ~(sent'.sess = s /\ sent'.type \in {"sync_start", "sync_progress"}) ]_vars

\* after sync_complete a participant has left and another has attached, and
\* request_sync finds the session ready
C10_ReadyAgainAfterComplete ==
  /\ sessions # 0
  /\ sess[sessions].completes = 1
  /\ is_ready(sess[sessions])
  /\ "carol" \in Keys(sess[sessions].participants)
  /\ \E c \in ConnIds : conns[c].pc = "recv" /\ conns[c].ws = "open"
  /\ \A t \in TaskIds : tasks[t].pc = "none"

\* C11: a sync_progress frame is handed to a channel only after the channel's
\* handler has sent the joiner's session_info on it (its connect is past the
\* user_joined broadcast)
C11_InfoBeforeProgress ==
  [][ \A c \in ConnIds :
        sent'.type = "sync_progress" /\ sent'.to = c
          => conns[c].pc \notin {"idle", "connect_bcast"} ]_vars

\* a step in which task t starts a sync_progress broadcast
StartsProgress(t) ==
  /\ tasks[t].pc \in {"start_sleep", "round_sleep"}
  /\ tasks'[t].pc = "progress_bcast"

\* C12, as stated: every sync_progress frame handed to a channel carries a
\* round above every round the channel was handed before, over all runs of
\* the session, and within a run the next round after the last one handed
C12_RoundsIncreaseForever ==
  [][ \A c \in ConnIds :
        sent'.type = "sync_progress" /\ sent'.to = c
          => /\ sent'.round > conns[c].max_round
             /\ conns[c].run_round = 0 \/ sent'.round = conns[c].run_round + 1 ]_vars

\* C12, amended: a run numbers its sync_progress broadcasts 1, 2, 3, ... (the
\* task's round_num starts at 0, grows by one exactly when a broadcast starts,
\* and every frame of the broadcast carries it); a channel is handed the
\* rounds without gap or repeat from the first one broadcast after it
\* attached or after a sync_start
C12_RoundsCountPerRun ==
  [][ /\ \A t \in TaskIds :
           /\ tasks'[t].pc = "created" => tasks'[t].round_num = 0
           /\ tasks[t].pc # "none" /\ tasks'[t].pc # "none"
                => tasks'[t].round_num =
                     IF StartsProgress(t) THEN tasks[t].round_num + 1 ELSE tasks[t].round_num
           /\ sent'.type = "sync_progress" /\ sent'.task = t
                => sent'.round = tasks'[t].round_num /\ sent'.round >= 1
      /\ \A c \in ConnIds :
           sent'.type = "sync_progress" /\ sent'.to = c
             => conns[c].run_round = 0 \/ sent'.round = conns[c].run_round + 1 ]_vars

\* a channel that was handed round 2 of one run has been handed sync_start
\* and round 1 of a later run
C12_SecondRunRestarts ==
  \E c \in ConnIds : conns[c].max_round = 2 /\ conns[c].run_round = 1

\* C13: a task sends a sync_progress frame only after its own sync_start
\* broadcast: the task's first step starts that broadcast with its first send,
\* the task goes to its sleep and on to the loop only from the end of that
\* broadcast, and only a task in the loop sends sync_progress
C13_StartBeforeProgress ==
  [][ \A t \in TaskIds :
        /\ sent'.type = "sync_progress" /\ sent'.task = t
             => tasks[t].pc \in {"start_sleep", "round_sleep", "progress_bcast"}
        /\ tasks'[t].pc = "start_sleep" /\ tasks[t].pc # "start_sleep"
             => tasks[t].pc = "start_bcast" /\ tasks[t].bq = <<>>
        /\ tasks'[t].pc = "start_bcast" /\ tasks[t].pc # "start_bcast"
             => /\ tasks[t].pc = "created"
                /\ tasks'[t].bframe.type = "sync_start" /\ tasks'[t].bframe.task = t
                /\ sent' = NoFrame \/ (sent'.type = "sync_start" /\ sent'.task = t)
        /\ tasks'[t].pc \in {"round_sleep", "progress_bcast"}
             => tasks[t].pc \in {"start_sleep", "round_sleep", "progress_bcast"} ]_vars

\* a task is sending the sync_progress frames of its first round
C13_FirstProgressOut ==
  \E t \in TaskIds :
    /\ tasks[t].pc = "progress_bcast"
    /\ tasks[t].round_num = 1
    /\ sent.type = "sync_progress" /\ sent.task = t

\* the registered session holds two participants, each on an open channel
\* whose handler is in its receive loop, and is not synced
TwoAttachedUnsynced ==
  /\ sessions # 0
  /\ is_ready(sess[sessions])
  /\ ~sess[sessions].is_synced
  /\ \A i \in DOMAIN sess[sessions].participants :
       /\ conns[sess[sessions].participants[i].ref].pc = "recv"
       /\ conns[sess[sessions].participants[i].ref].ws = "open"

\* a task of the registered session has started and is not cancelled
SyncRunning ==
  \E t \in TaskIds :
    /\ tasks[t].session = sessions
    /\ tasks[t].pc \notin {"none", "created"}
    /\ ~tasks[t].cancelled

\* C14: when a session holds two attached participants and is not synced,
\* then, with no request_sync from any client, a sync task of the session
\* gets started (it broadcasts sync_start in its first step).  Stated on the
\* states where the server has come to rest (every handler waits for a frame
\* on an open channel, no task is left to run), from which nothing happens
\* while both stay attached and silent: in such a state a session with two
\* attached participants that is not synced has its sync task running
C14_TwoAttachedGetSync ==
  (~ServerReady /\ TwoAttachedUnsynced) => SyncRunning

\* the value v moved into [-L, L]
Bounded(v, L) == CHOOSE r \in (-L)..L : \A q \in (-L)..L : Abs(v - r) <= Abs(v - q)

\* the row the contract of update_weights gives for row k
ContractRow(W, X, sigma, rule, L, k) ==
  [n \in 1..Len(W[k]) |->
     Bounded(IF rule = "hebbian" THEN W[k][n] + X[k][n] * sigma[k]
             ELSE IF rule = "anti_hebbian" THEN W[k][n] - X[k][n] * sigma[k]
             ELSE W[k][n] + X[k][n], L)]

\* C15: for every TPM of the session, every input X, every pair of outputs,
\* every sigma and each of the three rules: update_weights leaves the matrix
\* as it is and returns false when tau_self # tau_other; otherwise it returns
\* true, every row k with sigma[k] = tau becomes the clipped row of the rule
\* and every other row stays
C15_UpdateContract ==
  \A i \in {1, 2, 3} :
    \A X \in InputSpace(sess[1].tpm_k, sess[1].tpm_n),
       sigma \in [1..sess[1].tpm_k -> {-1, 1}],
       tau_self \in {-1, 1}, tau_other \in {-1, 1}, rule \in Rules :
      LET W == tpm[i].weights
          R == update_weights(W, X, tau_self, tau_other, sigma, rule, sess[1].tpm_l)
      IN  IF tau_self # tau_other
          THEN R = W /\ ~update_weights_returns(tau_self, tau_other)
          ELSE /\ update_weights_returns(tau_self, tau_other)
               /\ \A k \in 1..sess[1].tpm_k :
                    R[k] = IF sigma[k] = tau_self
                           THEN ContractRow(W, X, sigma, rule, sess[1].tpm_l, k)
                           ELSE W[k]

\* after a round, a TPM with two rows for which one update moves the first
\* row and leaves the second, and another is stopped by the bound
C15_RowMovesRowStays ==
  /\ sess[1].sync_round = 1
  /\ sess[1].tpm_k = 2
  /\ \E X \in InputSpace(2, sess[1].tpm_n), sigma \in [1..2 -> {-1, 1}] :
       LET R == update_weights(tpm[1].weights, X, 1, 1, sigma, "hebbian", sess[1].tpm_l)
       IN  R[1] # tpm[1].weights[1] /\ sigma[2] = -1 /\ R[2] = tpm[1].weights[2]
  /\ \E X \in InputSpace(2, sess[1].tpm_n) :
       /\ tpm[1].weights[1][1] + X[1][1] > sess[1].tpm_l
       /\ update_weights(tpm[1].weights, X, 1, 1, <<1, 1>>, "random_walk", sess[1].tpm_l)[1]
            = tpm[1].weights[1]

\* the local field h_k of row k: the sum over n of X[k][n] * W[k][n]
RECURSIVE FieldUpTo(_, _, _, _)
FieldUpTo(W, X, k, n) ==
  IF n = 0 THEN 0 ELSE FieldUpTo(W, X, k, n - 1) + X[k][n] * W[k][n]

LocalField(W, X, k) == FieldUpTo(W, X, k, Len(W[k]))

\* C16: for every TPM of the session and every input X, compute_output gives
\* sigma[k] = +1 when h_k >= 0 and -1 otherwise, and tau in {-1, +1}, equal to
\* the product of the sigma[k] (-1 exactly when an odd number of them is -1);
\* the result is a function of (W, X) alone, and a round in which the two
\* outputs disagree below 85% progress leaves both matrices as they were
C16_OutputContract ==
  \A i \in {1, 2, 3} :
    \A X \in InputSpace(sess[1].tpm_k, sess[1].tpm_n) :
      LET W == tpm[i].weights
          o == compute_output(W, X)
          minus == {k \in 1..sess[1].tpm_k : o.sigma[k] = -1}
      IN  /\ DOMAIN o.sigma = 1..sess[1].tpm_k
          /\ \A k \in 1..sess[1].tpm_k :
               o.sigma[k] = IF LocalField(W, X, k) >= 0 THEN 1 ELSE -1
          /\ o.tau \in {-1, 1}
          /\ o.tau = IF Cardinality(minus) % 2 = 1 THEN -1 ELSE 1
          /\ \A j \in {1, 2, 3} : tpm[j].weights = W => compute_output(tpm[j].weights, X) = o
          /\ (/\ i = 1
              /\ o.tau # compute_output(tpm[2].weights, X).tau
              /\ ~ProgressGE(ProgressNum(WeightDiff(W, tpm[2].weights),
                                         MaxPossibleDiff(sess[1].tpm_k, sess[1].tpm_n, sess[1].tpm_l)),
                             ProgressDen(MaxPossibleDiff(sess[1].tpm_k, sess[1].tpm_n, sess[1].tpm_l)),
                             85))
               => \A rule \in Rules :
                    LET r == RoundBody([NewTask(1) EXCEPT !.learning_rule = rule],
                                       W, tpm[2].weights, tpm[3], X,
                                       sess[1].tpm_k, sess[1].tpm_n, sess[1].tpm_l)
                    IN  r.a = W /\ r.b = tpm[2].weights /\ r.e = tpm[3]

\* after a round, a TPM with a row whose local field is 0 (sigma +1) and a row
\* whose field is negative, so that tau is -1
C16_ZeroFieldAndNegative ==
  /\ sess[1].sync_round = 1
  /\ sess[1].tpm_k = 2
  /\ \E X \in InputSpace(2, sess[1].tpm_n) :
       /\ LocalField(tpm[1].weights, X, 1) = 0
       /\ LocalField(tpm[1].weights, X, 2) < 0
       /\ compute_output(tpm[1].weights, X) = [tau |-> -1, sigma |-> <<1, -1>>]

\* an output a TPM with K rows may give: any sigma, tau its product
OutputSpace(K) == {[tau |-> ProdSeq(sg), sigma |-> sg] : sg \in [1..K -> {-1, 1}]}

\* C17: for the session's two participant matrices, every input X, every
\* pair of outputs and every rule, the end-game assist run on (A, B) and on
\* (B, A) leaves each TPM with the same matrix
C17_AssistSymmetric ==
  \A X \in InputSpace(sess[1].tpm_k, sess[1].tpm_n),
     oa \in OutputSpace(sess[1].tpm_k), ob \in OutputSpace(sess[1].tpm_k),
     rule \in Rules :
    LET maxd == MaxPossibleDiff(sess[1].tpm_k, sess[1].tpm_n, sess[1].tpm_l)
        ab == FinalPush(tpm[1].weights, tpm[2].weights, X, oa, ob, rule, maxd, sess[1].tpm_l)
        ba == FinalPush(tpm[2].weights, tpm[1].weights, X, ob, oa, rule, maxd, sess[1].tpm_l)
    IN  ab.a = ba.b /\ ab.b = ba.a

\* the two matrices are one apart at 90% progress, and the assist (direct
\* convergence, then the doubled step) changes both and makes them equal
C17_AssistActs ==
  /\ WeightDiff(tpm[1].weights, tpm[2].weights) = 1
  /\ sess[1].tpm_l = 5
  /\ \E X \in InputSpace(sess[1].tpm_k, sess[1].tpm_n) :
       LET oa == compute_output(tpm[1].weights, X)
           ob == compute_output(tpm[2].weights, X)
           ab == FinalPush(tpm[1].weights, tpm[2].weights, X, oa, ob, "hebbian",
                           MaxPossibleDiff(sess[1].tpm_k, sess[1].tpm_n, sess[1].tpm_l),
                           sess[1].tpm_l)
       IN  oa.tau = ob.tau /\ ab.a # tpm[1].weights /\ ab.b # tpm[2].weights /\ ab.a = ab.b

\* two results of a round are the same for the participants: the matrices
\* of A and B and the locals of the task
SameForParticipants(r1, r2) ==
  /\ r1.a = r2.a /\ r1.b = r2.b
  /\ r1.T = r2.T
  /\ r1.agreed = r2.agreed /\ r1.progress = r2.progress
  /\ get_key(r1.a) = get_key(r2.a)

\* the results with and without the attacker agree, and so do the results
\* of the round that follows them under every input
NoInfluence(with, without, K, N, L) ==
  /\ SameForParticipants(with, without)
  /\ without.e = NoTpm
  /\ \A Y \in InputSpace(K, N) :
       SameForParticipants(RoundBody(with.T, with.a, with.b, with.e, Y, K, N, L),
                           RoundBody(without.T, without.a, without.b, without.e, Y, K, N, L))

\* C18: for the session's participant matrices, every input X and every rule,
\* the round run with the attacker's TPM and the round run without one
\* (attacker_tpm None) give the same matrices of A and B, the same locals of
\* the task (round number, learning rule, progress history, weights_match,
\* which decides the round of completion) and the same key of A; the same
\* holds for the round that follows under every second input
C18_AttackerNoInfluence ==
  \A X \in InputSpace(sess[1].tpm_k, sess[1].tpm_n), rule \in Rules :
    NoInfluence(RoundBody([NewTask(1) EXCEPT !.learning_rule = rule],
                          tpm[1].weights, tpm[2].weights, tpm[3], X,
                          sess[1].tpm_k, sess[1].tpm_n, sess[1].tpm_l),
                RoundBody([NewTask(1) EXCEPT !.learning_rule = rule],
                          tpm[1].weights, tpm[2].weights, NoTpm, X,
                          sess[1].tpm_k, sess[1].tpm_n, sess[1].tpm_l),
                sess[1].tpm_k, sess[1].tpm_n, sess[1].tpm_l)

\* a round has run in which the attacker's TPM is apart from A's, and in the
\* next round the attacker and both participants move
C18_AttackerMoves ==
  /\ sess[1].sync_round = 1
  /\ tpm[3].used
  /\ sess[1].attacker_diff > 0
  /\ \E X \in InputSpace(sess[1].tpm_k, sess[1].tpm_n) :
       LET r == RoundBody(NewTask(1), tpm[1].weights, tpm[2].weights, tpm[3], X,
                          sess[1].tpm_k, sess[1].tpm_n, sess[1].tpm_l)
       IN  r.e # tpm[3] /\ r.a # tpm[1].weights /\ r.b # tpm[2].weights /\ r.a # r.e.weights

\* a step in which task t ends
TaskEnds(t) == tasks[t].pc # "none" /\ tasks'[t].pc = "none"

\* the error path of a task: a task that is not cancelled leaves a sleep and
\* ends in the same step only when under-populated (an exception instead
\* starts the error broadcast, with the send to the first participant); it
\* leaves the error broadcast, unless cancelled, only when every participant
\* of its list was sent the frame; and it then ends with is_syncing false and
\* no task registered
ErrorPath(t) ==
  /\ (/\ tasks[t].pc \in {"start_sleep", "round_sleep"}
      /\ ~tasks[t].cancelled
      /\ TaskEnds(t))
       => \/ Len(sess[tasks[t].session].participants) < 2
          \/ Len(sess[tasks[t].session].tpms) < 2
  /\ tasks'[t].pc = "error_bcast" /\ tasks[t].pc # "error_bcast"
       => /\ tasks[t].pc \in {"start_sleep", "round_sleep"}
          /\ tasks'[t].bframe.type = "error"
          /\ Len(tasks'[t].bq) = Len(sess[tasks[t].session].participants) - 1
          /\ sent' = NoFrame \/ (sent'.type = "error" /\ sent'.task = t)
  /\ tasks[t].pc = "error_bcast" /\ tasks'[t].pc # "error_bcast"
       => /\ TaskEnds(t)
          /\ tasks[t].cancelled \/ tasks[t].bq = <<>>
          /\ ~sess'[tasks[t].session].is_syncing
          /\ sync_tasks' = 0

Users(q) == {q[i] : i \in DOMAIN q}

\* one broadcast, of a coroutine with locals B before the step and B2 after
\* it, over session S before and S2 after: inbc tells whether the position is
\* inside the broadcast, gone whether the coroutine was cancelled, exclude
\* the users the caller excluded
\*  - the step that enters the broadcast takes every participant of the
\*    session but the excluded ones into its list and sends to the first;
\*  - a send that raises notes the user and the broadcast goes on with the
\*    rest of the list (the exception does not reach the caller);
\*  - the broadcast is left only when the list is exhausted, and that step
\*    removes from participants and from tpms exactly the noted users
BroadcastIsolates(B, B2, S, S2, inbc, inbc2, gone, exclude) ==
  /\ inbc2 /\ ~(inbc /\ B2.pc = B.pc)
       => /\ Len(B2.bq) + 1 = Cardinality(Keys(S2.participants) \ exclude)
          /\ \/ Len(B2.bfail) = 0 /\ sent' = [B2.bframe EXCEPT !.to = sent'.to]
             \/ Len(B2.bfail) = 1 /\ sent' = NoFrame
  /\ inbc /\ inbc2 /\ B2.pc = B.pc /\ B2.bq # B.bq
       => /\ B.bq # <<>>
          /\ B2.bq = Tail(B.bq)
          /\ \/ /\ conns[Head(B.bq).ref].ws = "open"
                /\ sent' = [B.bframe EXCEPT !.to = Head(B.bq).ref]
                /\ B2.bfail = B.bfail
             \/ /\ conns[Head(B.bq).ref].ws # "open"
                /\ sent' = NoFrame
                /\ B2.bfail = Append(B.bfail, Head(B.bq).user)
  /\ inbc /\ ~(inbc2 /\ B2.pc = B.pc) /\ ~gone
       => /\ B.bq = <<>>
          /\ Keys(S.participants) \ Keys(S2.participants)
               = Users(B.bfail) \cap Keys(S.participants)
          /\ Keys(S.tpms) \ Keys(S2.tpms) = Users(B.bfail) \cap Keys(S.tpms)

\* C20: every broadcast of a handler (user_joined, user_left) and of a sync
\* task (sync_start, sync_progress, sync_complete) that is not cancelled
\* sends to every participant of its list whether or not an earlier send
\* raised, goes on to its caller's next statement, and removes exactly the
\* users whose send raised, with their TPMs
C20_BroadcastIsolatesFailure ==
  [][ /\ \A t \in TaskIds :
           tasks[t].pc # "none" \/ tasks'[t].pc # "none"
             => BroadcastIsolates(tasks[t], tasks'[t],
                                  sess[IF tasks[t].pc = "none" THEN tasks'[t].session
                                       ELSE tasks[t].session],
                                  sess'[IF tasks[t].pc = "none" THEN tasks'[t].session
                                        ELSE tasks[t].session],
                                  tasks[t].pc \in TaskBcastPcs, tasks'[t].pc \in TaskBcastPcs,
                                  tasks[t].cancelled, {})
      /\ \A c \in ConnIds :
           conns[c].pc \in ConnBcastPcs \/ conns'[c].pc \in ConnBcastPcs
             => BroadcastIsolates(conns[c], conns'[c],
                                  sess[IF conns[c].cur = 0 THEN conns'[c].cur ELSE conns[c].cur],
                                  sess'[IF conns[c].cur = 0 THEN conns'[c].cur ELSE conns[c].cur],
                                  conns[c].pc \in ConnBcastPcs, conns'[c].pc \in ConnBcastPcs,
                                  FALSE, {conns'[c].user}) ]_vars

\* a task's broadcast in which the send to the first participant raised and
\* the second participant has been sent the frame
C20_SentAfterFailure ==
  \E t \in TaskIds :
    /\ tasks[t].pc \in TaskBcastPcs
    /\ ~tasks[t].cancelled
    /\ Len(tasks[t].bfail) = 1
    /\ tasks[t].bq = <<>>
    /\ sent.task = t /\ sent.type = tasks[t].bframe.type
    /\ Len(sess[tasks[t].session].participants) = 2

\* C21: every message frame handed to a channel comes from a handler inside
\* relay_message and carries that handler's user_id as sender_id and the
\* ciphertext of the frame the handler received last, unchanged; it goes to a
\* channel of another user, never back to the sender; and it is the sender's
\* latest message, later in the sender's stream than every message the
\* channel was handed before (the sender's order is kept)
C21_RelayInOrder ==
  [][ sent'.type = "message"
        => \E c \in ConnIds :
             /\ conns'[c].pc = "relay_bcast"
             /\ conns'[c].bframe = [sent' EXCEPT !.to = 0]
             /\ sent'.user = conns[c].user
             /\ sent'.ciphertext = conns'[c].data
             /\ sent'.seq = conns'[c].msgs
             /\ sent'.to # c
             /\ conns[sent'.to].user # conns[c].user
             /\ sent'.seq > conns[sent'.to].seen
             /\ conns'[sent'.to].seen = sent'.seq ]_vars

\* the second message of a sender is handed to the other participant, who
\* has sent messages too
C21_SecondMessageRelayed ==
  /\ sent.type = "message"
  /\ sent.seq = 2
  /\ \E c \in ConnIds : conns[c].pc = "relay_bcast" /\ conns[c].msgs = 2
  /\ conns[sent.to].seen = 2
  /\ conns[sent.to].msgs > 0

\* the session's (K, N, L) as SessionCreate constrains them
SessionInRange(S) == SessionCreateValid(<<S.tpm_k, S.tpm_n, S.tpm_l>>)

\* every TPM the session holds is a K x N matrix over [-L, L] for the
\* session's own (K, N, L)
TpmsOfSessionConfig(S) ==
  \A i \in SessionTpms(S) : tpm[i].weights \in WeightSpace(S.tpm_k, S.tpm_n, S.tpm_l)

\* C22: the registered session, created by POST /sessions or by the first
\* connect, has K in 1..32, N in 1..64 and L in 1..10, and its TPMs are made
\* with the session's (K, N, L) whatever later connectors supply
C22_SessionConfigInRange ==
  sessions # 0 => SessionInRange(sess[sessions]) /\ TpmsOfSessionConfig(sess[sessions])

\* the step is taken by handler c on its connect path (lines 74-131 and their
\* broadcast) or on its disconnect path (lines 133-154 and their broadcast)
ConnectOrDisconnectStep(c) ==
  /\ conns'[c] # conns[c]
  /\ \/ conns[c].pc \in {"idle", "connect_bcast", "connect_info", "disconnect_bcast"}
     \/ conns[c].pc = "recv" /\ conns'[c].pc \in {"disconnect_bcast", "done"}

\* C23: a step that changes the participant set of a session is a step of a
\* handler's connect or disconnect; the steps of the sync task, its
\* broadcasts included, and the message relays leave every participant set
\* as it is
C23_OnlyConnectDisconnectMutate ==
  [][ (\E s \in SessIds :
         /\ sess[s].live /\ sess'[s].live
         /\ Keys(sess'[s].participants) # Keys(sess[s].participants))
        => \E c \in ConnIds : ConnectOrDisconnectStep(c) ]_vars

\* C24: for every key and every message, what a cipher built from the key
\* decrypts from the output of encrypt of a cipher built from the same key is
\* exactly the message (and decrypt does not raise)
C24_RoundTrip ==
  obj.at = "decrypted" => obj.decrypted.ok /\ obj.decrypted.text = obj.plaintext

\* a two-character message with a four-byte and a two-byte character went
\* through a cipher whose key was cut to 32 bytes
C24_MultiByteRoundTrip ==
  /\ obj.at = "decrypted"
  /\ obj.plaintext = <<128512, 233>>
  /\ ~obj.receiver.hashed
  /\ Len(obj.encrypted) = 48
  /\ obj.decrypted.text = <<128512, 233>>

\* the round just run switched the learning rule (line 393 stores the round)
Switched == tasks'[1].last_switch_round # tasks[1].last_switch_round

\* C25: the learning rule starts as random_walk; it changes only in a round
\* that switches, by one step of the cycle random_walk -> hebbian ->
\* anti_hebbian -> random_walk, and a round switches only when the counter of
\* rounds without improvement has reached I and I rounds have passed since
\* the last switch (I = 30 at progress >= 0.85, else 50); the switch resets
\* the counter and stores the round, so that switches are 30 rounds apart
C25_RuleCycle ==
  [][ /\ tasks[1].round_num = 0 => tasks[1].learning_rule = "random_walk"
      /\ ~Switched => tasks'[1].learning_rule = tasks[1].learning_rule
      /\ Switched
           => /\ <<tasks[1].learning_rule, tasks'[1].learning_rule>>
                   \in {<<"random_walk", "hebbian">>, <<"hebbian", "anti_hebbian">>,
                        <<"anti_hebbian", "random_walk">>}
              /\ tasks[1].rounds_since_improvement + 1 >= SwitchInterval(obj'.progress, TrackDen)
              /\ tasks'[1].round_num - tasks[1].last_switch_round
                   >= SwitchInterval(obj'.progress, TrackDen)
              /\ tasks'[1].rounds_since_improvement = 0
              /\ tasks'[1].last_switch_round = tasks'[1].round_num
              /\ tasks'[1].last_switch_round - tasks[1].last_switch_round >= CloseSwitchInterval
    ]_vars

\* the rule has gone through the whole cycle and is random_walk again, the
\* last switches 30 rounds apart
C25_CycleClosed ==
  /\ tasks[1].learning_rule = "random_walk"
  /\ tasks[1].last_switch_round = 3 * (CloseSwitchInterval + 1) - 2
  /\ tasks[1].round_num = tasks[1].last_switch_round
  /\ obj.progress = 171

\* C26: right after every switch of the learning rule the progress window
\* holds the last 20 of the entries it held before the switch (the round's
\* own entry last); no switch empties it
C26_SwitchKeepsLastTwenty ==
  [][ Switched
        => /\ tasks'[1].progress_history
                = LastN(CapHistory(Append(tasks[1].progress_history, obj'.progress)), TrimKeep)
           /\ Len(tasks'[1].progress_history) = TrimKeep
           /\ tasks'[1].progress_history[TrimKeep] = obj'.progress ]_vars

\* a switch has just trimmed a window that held entries of two levels
C26_TrimmedMixedWindow ==
  /\ tasks[1].last_switch_round = tasks[1].round_num
  /\ tasks[1].round_num > 0
  /\ Len(tasks[1].progress_history) = TrimKeep
  /\ tasks[1].progress_history[1] # tasks[1].progress_history[TrimKeep]

\* the progress measure of a round with progress num, for the locals T before
\* the round: the sum of the last AvgWindow entries once the window holds
\* that many, AvgWindow times the single sample before (best_progress is kept
\* in the same unit, 1 / (AvgWindow * den))
Measure(T, num) ==
  LET h2 == CapHistory(Append(T.progress_history, num))
  IN  IF Len(h2) >= AvgWindow THEN SumSeq(LastN(h2, AvgWindow)) ELSE AvgWindow * num

\* C27: in every round the counter of rounds without improvement goes up by
\* one (a switch in the same round then resets it) unless the round's measure
\* is at least 0.01 above best_progress, and then best_progress takes the
\* measure and the counter is 0; best_progress never goes down.  A measure
\* exactly 0.01 above best_progress is left open (the comparison is made in
\* floating point)
C27_ImprovementByOnePercent ==
  [][ tasks'[1].round_num = tasks[1].round_num + 1
        => /\ 2 * Measure(tasks[1], obj'.progress) > 2 * tasks[1].best_progress + TrackDen
                => /\ tasks'[1].best_progress = Measure(tasks[1], obj'.progress)
                   /\ tasks'[1].rounds_since_improvement = 0
           /\ 2 * Measure(tasks[1], obj'.progress) < 2 * tasks[1].best_progress + TrackDen
                => /\ tasks'[1].best_progress = tasks[1].best_progress
                   /\ \/ tasks'[1].rounds_since_improvement
                           = tasks[1].rounds_since_improvement + 1
                      \/ Switched /\ tasks'[1].rounds_since_improvement = 0
           /\ tasks'[1].best_progress >= tasks[1].best_progress ]_vars

Max(a, b) == IF a >= b THEN a ELSE b

\* C28: run_full_sync makes at most max_rounds calls of run_round and ends
\* with state.round <= max_rounds; it returns (true, rounds, key of TPM A)
\* only when the two weight matrices are equal and (false, max_rounds, b'')
\* otherwise; agreements never exceeds round
C28_FullSyncWithinMaxRounds ==
  /\ obj.at = "full_sync" => obj.calls <= obj.max_rounds
  /\ obj.ret.set
       => /\ obj.ret.rounds <= obj.max_rounds
          /\ obj.ret.success
               => obj.tpm_a = obj.tpm_b /\ obj.ret.key = get_key(obj.tpm_a)
          /\ ~obj.ret.success
               => obj.ret.rounds = obj.max_rounds /\ obj.ret.key = EmptyKey
  /\ obj.state.agreements <= obj.state.round

\* C28 with the rounds run before the call counted: run_full_sync makes at
\* most max_rounds - round0 calls of run_round (none when round0 is at
\* max_rounds or beyond) and ends with state.round <= max(max_rounds, round0);
\* it returns (true, state.round, key of TPM A) only when the weight matrices
\* are equal and (false, max(max_rounds, round0), b'') otherwise; agreements
\* never exceeds round
C28_FullSyncWithinRemainingRounds ==
  /\ obj.at = "full_sync"
       => /\ obj.calls <= Max(obj.max_rounds - obj.round0, 0)
          /\ obj.state.round = obj.round0 + obj.calls
  /\ obj.ret.set
       => /\ obj.ret.rounds = obj.state.round
          /\ obj.ret.rounds <= Max(obj.max_rounds, obj.round0)
          /\ obj.ret.success
               => obj.tpm_a = obj.tpm_b /\ obj.ret.key = get_key(obj.tpm_a)
          /\ ~obj.ret.success
               => /\ obj.ret.rounds = Max(obj.max_rounds, obj.round0)
                  /\ obj.ret.key = EmptyKey
  /\ obj.state.agreements <= obj.state.round

\* run_full_sync was called after a direct run_round, made the one call left
\* to it and returned without success
C28_ReturnedAfterRemaining ==
  /\ obj.ret.set
  /\ ~obj.ret.success
  /\ obj.round0 = 1
  /\ obj.calls = 1
  /\ obj.ret.rounds = MaxProtoRounds

\* C29: reset() returns and leaves state equal to a fresh SyncState (round 0,
\* agreements 0, is_synced false, key_hash unset)
C29_ResetGivesFreshState ==
  obj.last = "reset" => obj.raised = "" /\ obj.state = NewSyncState

ProtoStep(P, Q) ==
  /\ P.tpm_a = P.tpm_b => Q.tpm_a = Q.tpm_b
  /\ P.state.is_synced => Q.state.is_synced

\* C30: two TPMs with equal weights before a round have equal weights after
\* it, for every input and every learning rule; so once is_synced is true the
\* weights of the protocol's TPMs are equal in every later state
C30_SyncAbsorbing ==
  /\ [](obj.state.is_synced => obj.tpm_a = obj.tpm_b)
  /\ [][ProtoStep(obj, obj')]_vars

\* the TPMs reached equal weights in a second round, moved by the learning
\* rule, and a later run_round was refused
C30_RefusedAfterSync ==
  /\ obj.state.is_synced
  /\ obj.state.round = 2
  /\ obj.tpm_a = obj.tpm_b
  /\ \E i \in DOMAIN obj.tpm_a : \E j \in DOMAIN obj.tpm_a[i] : obj.tpm_a[i][j] # 0
  /\ obj.last = "run_round"
  /\ obj.raised = "RuntimeError"

\* the users of an ordered dict, in the dict's order
KeySeq(d) == [i \in DOMAIN d |-> d[i].user]

OldChannel(c) ==
  /\ conns[c].pc = "recv"
  /\ sessions # 0
  /\ conns[c].session = sessions
  /\ conns[c].user \in Keys(sess[sessions].participants)
  /\ Get(sess[sessions].participants, conns[c].user) # c
  /\ conns[Get(sess[sessions].participants, conns[c].user)].pc # "done"

\* the old channel c ends: its handler's finally runs disconnect
OldChannelDisconnects(c) ==
  /\ OldChannel(c)
  /\ conns[c].ws = "broken"
  /\ conns'[c].pc \in {"done", "disconnect_bcast"}

\* the disconnect of old channel c keeps the user's entry and TPM
KeepsEntry(c) ==
  /\ sessions' = sessions
  /\ conns[c].user \in Keys(sess'[sessions].participants)
  /\ Get(sess'[sessions].participants, conns[c].user)
       = Get(sess[sessions].participants, conns[c].user)
  /\ conns[c].user \in Keys(sess'[sessions].tpms)
  /\ Get(sess'[sessions].tpms, conns[c].user) = Get(sess[sessions].tpms, conns[c].user)

\* the disconnect of an old channel leaves the registered task registered
\* and not cancelled
KeepsTask ==
  sync_tasks # 0 => sync_tasks' = sync_tasks /\ ~tasks'[sync_tasks].cancelled

\* the registered task, once it has picked its TPMs (lines 217-218), updates
\* the TPM that session.tpms holds for the user of old channel c
TaskHoldsTpmOf(c) ==
  (sync_tasks # 0 /\ tasks[sync_tasks].tpm_a # 0 /\ ~tasks[sync_tasks].cancelled
     /\ tasks[sync_tasks].session = sessions)
    => Get(sess[sessions].tpms, conns[c].user)
         \in {tasks[sync_tasks].tpm_a, tasks[sync_tasks].tpm_b}

\* C32: when a user has re-attached under the same user_id on a new channel
\* while the old channel's handler is alive, the end of the old channel (its
\* disconnect) neither removes the user's participant entry or TPM nor cancels
\* the registered sync task, and the TPMs the running task updates are the
\* ones session.tpms holds
C32_OldChannelEndHarmless ==
  [][ \A c \in ConnIds :
        /\ OldChannelDisconnects(c) => KeepsEntry(c) /\ KeepsTask
        /\ OldChannel(c) => TaskHoldsTpmOf(c)
    ]_vars

====
